---------------------------- MODULE Spec2Model ----------------------------
(***************************************************************************)
(* Model of the forecast-to-recommendation pipeline of pendllwetter:       *)
(*   - evaluateRideability            (lib/rideability.ts)                 *)
(*   - findRelevantSlots / findBestSlotInTimeWindow (lib/rideability.ts)   *)
(*   - analyzeSoaringConditions (ridge part) and detectLeeRisk             *)
(*   - findBestWindow                 (lib/paragliding-forecast-profiles)  *)
(*   - buildAtmosphericProfile with calculateLCL, analyzeCAPE,             *)
(*     calculateLFC, buildWindProfile, calculateWindShear and              *)
(*     analyzeThermalConditions                                            *)
(*   - generateParaglidingAnalysis with the risk detectors,                *)
(*     evaluateSafetyLevel, analyzeSoaringConditions, analyzeXCPotential   *)
(*     and generateFlightWarnings                                          *)
(*   - findNearbyLaunchSites          (lib/paragliding-pro.ts)             *)
(*   - updateFromGPS                  (lib/location-store.tsx)             *)
(*   - loadParaglidingData and loadWeather (components/views)              *)
(*                                                                         *)
(* Units.  Real-valued weather fields of the commute sample (temp, rain,   *)
(* windSpeed, windGust) are integers in hundredths of their unit, and the  *)
(* effective wind, which takes windGust * 0.8, is in thousandths.  pop     *)
(* (0-1) is in hundredths as well, and so is popPercent = pop * 100: a pop *)
(* of 0.05 is 5 and its popPercent of 5.0 is 500.  The emoji of a verdict  *)
(* is written as the name of its colour.                                   *)
(* The paragliding analysis computes with doubles where the arithmetic of  *)
(* the program rounds (cloud base, wind profile, wind shear, confidence).  *)
(* Timestamps are minutes of local wall-clock time since local midnight of *)
(* day 0; the time zone is a fixed offset tz (minutes east of UTC).        *)
(***************************************************************************)
EXTENDS Integers, Sequences, FiniteSets, TLC

VARIABLES
    slot,        \* the WeatherSlot handed to evaluateRideability
    verdict,     \* the RideabilityResult it returned (NoResult before a call)
    env,         \* findRelevantSlots: now, tz and the two forecasts' time arrays
    request,     \* findRelevantSlots: the shift and zeitraum of the last call
    results,     \* findRelevantSlots: the returned WeatherSlot[]
    lookups,     \* the findBestSlotInTimeWindow calls made, in call order
    soarIn,      \* wind direction / speed and launch orientation
    soarOut,     \* ridge analysis and lee risk computed from soarIn
    winIn,       \* findBestWindow: the hourly data and the scanned range
    winOut,      \* findBestWindow: the index returned (NoResult before a call)
    atmoIn,      \* buildAtmosphericProfile: the fields of the hour at the index
    atmoOut,     \* the atmospheric profile it returned (NoResult before a call)
    anaIn,       \* generateParaglidingAnalysis: the hour's fields and the launch site
    anaOut,      \* the analysis it returned (NoResult before a call)
    safeIn,      \* evaluateSafetyLevel: the risks, the thermal index, the shear level
    safeOut,     \* the level and score it returned (NoResult before a call)
    launchSites, \* LAUNCH_SITES, the shared launch-site table
    nearIn,      \* findNearbyLaunchSites: the query point and maxDistance
    nearOut,     \* the sites it returned (NoResult before a call)
    gpsRequestRef, \* location store: the pending promise, NoResult for null
    promises,    \* the promises updateFromGPS created: stage and settled value
    handed,      \* what each updateFromGPS call returned, in call order
    store,       \* location store: isLoading, error and the location's source
    selected,    \* location store: place (lat, lon), cityLabel and lastUpdated
    fetches,     \* the data loads of the views that are in flight
    viewState,   \* per view: loading, error, the place shown, a waiting check
    arrivals     \* per view: the last load to end, the latest with data, the order

rideVars == <<slot, verdict>>
slotVars == <<env, request, results, lookups>>
soarVars == <<soarIn, soarOut>>
winVars  == <<winIn, winOut>>
atmoVars == <<atmoIn, atmoOut>>
anaVars  == <<anaIn, anaOut>>
safeVars == <<safeIn, safeOut>>
siteVars == <<launchSites, nearIn, nearOut>>
gpsVars  == <<gpsRequestRef, promises, handed, store>>
loadVars == <<selected, fetches, viewState, arrivals>>
proVars  == <<atmoVars, anaVars, safeVars, siteVars, gpsVars, loadVars>>
vars     == <<slot, verdict, env, request, results, lookups, soarIn, soarOut, winIn, winOut,
              atmoIn, atmoOut, anaIn, anaOut, safeIn, safeOut, launchSites, nearIn, nearOut,
              gpsRequestRef, promises, handed, store, selected, fetches, viewState,
              arrivals>>

\* an absent value is the empty tuple, a present one the 1-tuple of it
NoResult == <<>>

\* the null a forecast array holds where the service has no value: null
\* counts as 0 in arithmetic and in comparisons (its first element is that
\* 0) and is replaced by || as a missing value is
Null == <<0, "null">>

\* x is undefined or null
Missing(x) == x = NoResult \/ x = Null

Max(a, b) == IF a >= b THEN a ELSE b
Min(a, b) == IF a <= b THEN a ELSE b
Abs(a)    == IF a >= 0 THEN a ELSE 0 - a

(***************************************************************************)
(*                 Numbers: IEEE 754 double precision                      *)
(*                                                                         *)
(* A number of the program is a double.  Where the program's arithmetic    *)
(* rounds, the model computes with the double itself: a record of the      *)
(* sign neg, the exponent exp and the mantissa man, of the value           *)
(* (-1)^neg * man * 2^exp with 2^52 <= man < 2^53, or Zero.  A mantissa is *)
(* four limbs of 14 bits, the lowest first; a wide number is eight limbs.  *)
(* Every operation gives the double nearest to the exact result, ties to   *)
(* the even mantissa.  Numbers stay far from the largest and the smallest  *)
(* doubles, so there are no infinities and no subnormal numbers.           *)
(***************************************************************************)
LimbBits == 14
Base == 2 ^ LimbBits
MantissaBits == 53

Limb(a, i) == IF i >= 1 /\ i <= Len(a) THEN a[i] ELSE 0

\* the number of bits of a limb
BitsOf(x) ==
    IF x >= 128
    THEN (IF x >= 2048
          THEN (IF x >= 8192 THEN 14 ELSE IF x >= 4096 THEN 13 ELSE 12)
          ELSE IF x >= 512 THEN (IF x >= 1024 THEN 11 ELSE 10)
          ELSE IF x >= 256 THEN 9 ELSE 8)
    ELSE IF x >= 8
    THEN (IF x >= 32 THEN (IF x >= 64 THEN 7 ELSE 6) ELSE IF x >= 16 THEN 5 ELSE 4)
    ELSE IF x >= 4 THEN 3 ELSE IF x >= 2 THEN 2 ELSE x

\* the number of bits of a wide number
BitLength(a) ==
    LET top == IF a[8] # 0 THEN 8 ELSE IF a[7] # 0 THEN 7 ELSE IF a[6] # 0 THEN 6
               ELSE IF a[5] # 0 THEN 5 ELSE IF a[4] # 0 THEN 4 ELSE IF a[3] # 0 THEN 3
               ELSE IF a[2] # 0 THEN 2 ELSE IF a[1] # 0 THEN 1 ELSE 0
    IN  IF top = 0 THEN 0 ELSE LimbBits * (top - 1) + BitsOf(a[top])

Wide(a) == <<Limb(a, 1), Limb(a, 2), Limb(a, 3), Limb(a, 4),
             Limb(a, 5), Limb(a, 6), Limb(a, 7), Limb(a, 8)>>

Narrow(a) == <<a[1], a[2], a[3], a[4]>>

\* the limbs of the column sums c, the carries moved up
Carried(c) ==
    LET t1 == c[1]
        t2 == c[2] + (t1 \div Base)
        t3 == c[3] + (t2 \div Base)
        t4 == c[4] + (t3 \div Base)
        t5 == c[5] + (t4 \div Base)
        t6 == c[6] + (t5 \div Base)
        t7 == c[7] + (t6 \div Base)
        t8 == c[8] + (t7 \div Base)
    IN  <<t1 % Base, t2 % Base, t3 % Base, t4 % Base,
          t5 % Base, t6 % Base, t7 % Base, t8 % Base>>

WideAdd(a, b) ==
    Carried(<<a[1] + b[1], a[2] + b[2], a[3] + b[3], a[4] + b[4],
              a[5] + b[5], a[6] + b[6], a[7] + b[7], a[8] + b[8]>>)

\* a - b for a >= b
WideSub(a, b) ==
    LET t1 == a[1] - b[1]
        t2 == a[2] - b[2] - (IF t1 < 0 THEN 1 ELSE 0)
        t3 == a[3] - b[3] - (IF t2 < 0 THEN 1 ELSE 0)
        t4 == a[4] - b[4] - (IF t3 < 0 THEN 1 ELSE 0)
        t5 == a[5] - b[5] - (IF t4 < 0 THEN 1 ELSE 0)
        t6 == a[6] - b[6] - (IF t5 < 0 THEN 1 ELSE 0)
        t7 == a[7] - b[7] - (IF t6 < 0 THEN 1 ELSE 0)
        t8 == a[8] - b[8] - (IF t7 < 0 THEN 1 ELSE 0)
        limb(t) == IF t < 0 THEN t + Base ELSE t
    IN  <<limb(t1), limb(t2), limb(t3), limb(t4), limb(t5), limb(t6), limb(t7), limb(t8)>>

\* a * q for a limb q
WideScale(a, q) ==
    Carried(<<a[1] * q, a[2] * q, a[3] * q, a[4] * q,
              a[5] * q, a[6] * q, a[7] * q, a[8] * q>>)

\* the product of two mantissas
WideMul(a, b) ==
    Carried(<<a[1] * b[1],
              a[1] * b[2] + a[2] * b[1],
              a[1] * b[3] + a[2] * b[2] + a[3] * b[1],
              a[1] * b[4] + a[2] * b[3] + a[3] * b[2] + a[4] * b[1],
              a[2] * b[4] + a[3] * b[3] + a[4] * b[2],
              a[3] * b[4] + a[4] * b[3],
              a[4] * b[4],
              0>>)

\* -1, 0, 1 as a < b, a = b, a > b
WideCompare(a, b) ==
    LET i == IF a[8] # b[8] THEN 8 ELSE IF a[7] # b[7] THEN 7 ELSE IF a[6] # b[6] THEN 6
             ELSE IF a[5] # b[5] THEN 5 ELSE IF a[4] # b[4] THEN 4
             ELSE IF a[3] # b[3] THEN 3 ELSE IF a[2] # b[2] THEN 2 ELSE 1
    IN  IF a[i] < b[i] THEN -1 ELSE IF a[i] > b[i] THEN 1 ELSE 0

\* a * 2^k, as far as it fits a wide number
ShiftLeft(a, k) ==
    LET drop == k \div LimbBits
        p == 2 ^ (k % LimbBits)
        limb(i) == ((Limb(a, i - drop) * p) % Base) + ((Limb(a, i - drop - 1) * p) \div Base)
    IN  <<limb(1), limb(2), limb(3), limb(4), limb(5), limb(6), limb(7), limb(8)>>

\* floor(a / 2^k)
ShiftRight(a, k) ==
    LET drop == k \div LimbBits
        p == 2 ^ (k % LimbBits)
        r == 2 ^ (LimbBits - (k % LimbBits))
        limb(i) == (Limb(a, i + drop) \div p) + (Limb(a, i + drop + 1) % p) * r
    IN  <<limb(1), limb(2), limb(3), limb(4), limb(5), limb(6), limb(7), limb(8)>>

\* bit j of a, bit 0 being the lowest
BitAt(a, j) == (Limb(a, j \div LimbBits + 1) \div 2 ^ (j % LimbBits)) % 2

\* some bit of a below bit j is set
AnyBitBelow(a, j) ==
    \/ \E i \in 1..(j \div LimbBits) : Limb(a, i) # 0
    \/ Limb(a, j \div LimbBits + 1) % 2 ^ (j % LimbBits) # 0

Zero == [neg |-> FALSE, exp |-> 0, man |-> <<0, 0, 0, 0>>]
IsZero(x) == x.man[4] = 0

\* the double (-1)^neg * n * 2^e of a wide number n of at most 53 bits, the
\* mantissa moved up by k bits
Normalized(neg, n, e, k) ==
    [neg |-> neg, exp |-> e - k, man |-> Narrow(ShiftLeft(n, k))]

\* the double of the mantissa m at exponent e; m has 54 bits after a carry
\* out of the top, and is a power of two then
Carried53(neg, m, e) ==
    IF m[4] >= 2048 THEN [neg |-> neg, exp |-> e + 1, man |-> <<0, 0, 0, 1024>>]
    ELSE [neg |-> neg, exp |-> e, man |-> Narrow(m)]

\* q, or q + 1 if what was cut off is more than a half, or is a half and q
\* is odd
Nearest(q, half, rest) ==
    IF half /\ (rest \/ q[1] % 2 = 1) THEN WideAdd(q, <<1, 0, 0, 0, 0, 0, 0, 0>>) ELSE q

\* RoundToDouble for a wide number n # 0 that has k bits more than a mantissa
RoundAt(neg, n, e, sticky, k) ==
    IF k <= 0 THEN Normalized(neg, n, e, 0 - k)
    ELSE Carried53(neg, Nearest(ShiftRight(n, k), BitAt(n, k - 1) = 1,
                                sticky \/ AnyBitBelow(n, k - 1)), e + k)

\* the double nearest to (-1)^neg * (n + f) * 2^e, ties to even, for a wide
\* number n, with 0 < f < 1 if sticky and f = 0 otherwise
RoundToDouble(neg, n, e, sticky) ==
    IF n = <<0, 0, 0, 0, 0, 0, 0, 0>> THEN Zero
    ELSE RoundAt(neg, n, e, sticky, BitLength(n) - MantissaBits)

\* the wide number of a whole number 0 <= a < 2^31
WideOf(a) == <<a % Base, (a \div Base) % Base, a \div (Base * Base), 0, 0, 0, 0, 0>>

\* the double of an integer
FromInt(n) == RoundToDouble(n < 0, WideOf(IF n < 0 THEN 0 - n ELSE n), 0, FALSE)

DblNeg(x) == IF IsZero(x) THEN x ELSE [x EXCEPT !.neg = ~x.neg]
DblAbs(x) == [x EXCEPT !.neg = FALSE]

\* -1, 0, 1 as |x| < |y|, |x| = |y|, |x| > |y|
MagnitudeCompare(x, y) ==
    IF IsZero(x) THEN (IF IsZero(y) THEN 0 ELSE -1)
    ELSE IF IsZero(y) THEN 1
    ELSE IF x.exp < y.exp THEN -1
    ELSE IF x.exp > y.exp THEN 1
    ELSE WideCompare(Wide(x.man), Wide(y.man))

\* the order c of two magnitudes as the order of the numbers, negative if neg
Reversed(c, neg) == IF neg THEN 0 - c ELSE c

\* -1, 0, 1 as x < y, x = y, x > y
DblCompare(x, y) ==
    IF IsZero(x) /\ IsZero(y) THEN 0
    ELSE IF x.neg /\ ~y.neg THEN -1
    ELSE IF ~x.neg /\ y.neg THEN 1
    ELSE Reversed(MagnitudeCompare(x, y), x.neg)

DblLess(x, y) == DblCompare(x, y) < 0
DblGreater(x, y) == DblCompare(x, y) > 0
DblMax(x, y) == IF DblCompare(x, y) >= 0 THEN x ELSE y
DblMin(x, y) == IF DblCompare(x, y) <= 0 THEN x ELSE y

\* x * y
DblMul(x, y) ==
    IF IsZero(x) \/ IsZero(y) THEN Zero
    ELSE RoundToDouble(x.neg # y.neg, WideMul(x.man, y.man), x.exp + y.exp, FALSE)

\* the sum of the wide numbers a and b if same, their difference a - b
\* otherwise
Combined(a, b, same) == IF same THEN WideAdd(a, b) ELSE WideSub(a, b)

\* x + y for |x| >= |y| > 0; a y more than two bits below the last bit of x
\* leaves x as it is
AddOrdered(x, y) ==
    IF x.exp - y.exp > MantissaBits + 2 THEN x
    ELSE RoundToDouble(x.neg, Combined(ShiftLeft(Wide(x.man), x.exp - y.exp), Wide(y.man),
                                       x.neg = y.neg), y.exp, FALSE)

\* x + y, where x is the number of the greater magnitude if first, and y
\* otherwise
AddEither(x, y, first) == AddOrdered(IF first THEN x ELSE y, IF first THEN y ELSE x)

\* x + y
DblAdd(x, y) ==
    IF IsZero(y) THEN x
    ELSE IF IsZero(x) THEN y
    ELSE AddEither(x, y, MagnitudeCompare(x, y) >= 0)

\* x - y
DblSub(x, y) == DblAdd(x, DblNeg(y))

\* the largest digit q <= guess with q * d <= a
RECURSIVE Digit(_, _, _)
Digit(a, d, guess) ==
    IF guess = 0 \/ WideCompare(WideScale(d, guess), a) <= 0 THEN guess
    ELSE Digit(a, d, guess - 1)

\* the digit q put before the digits found, and what a leaves above q * d
Divided(digits, a, d, q) ==
    [digits |-> <<q>> \o digits, r |-> WideSub(a, WideScale(d, q))]

\* the digit the top limbs of a and d suggest; d has its top bit set, so
\* that it is at most 2 too large
Guess(a, d) == Min(Base - 1, (a[5] * Base + a[4]) \div d[4])

\* one digit of a long division: the remainder a < d * Base of the digits
\* before gives the next digit of the quotient
DivideStep(digits, a, d) == Divided(digits, a, d, Digit(a, d, Guess(a, d)))

\* count more digits of the quotient by d, from the digits found and the
\* remainder r < d they left, which is moved up by a limb for the next digit
RECURSIVE LongDivide(_, _, _)
LongDivide(s, d, count) ==
    IF count = 0 THEN s
    ELSE LongDivide(DivideStep(s.digits, <<0, s.r[1], s.r[2], s.r[3], s.r[4], 0, 0, 0>>, d),
                    d, count - 1)

\* the double of sign neg whose mantissa are the digits found, the lowest
\* first, at exponent e
Quotient(neg, s, e) ==
    RoundToDouble(neg, <<s.digits[1], s.digits[2], s.digits[3], s.digits[4], s.digits[5],
                         0, 0, 0>>, e, s.r # <<0, 0, 0, 0, 0, 0, 0, 0>>)

\* the quotient of the wide numbers a < 2 * d by d, a digit of 0 or 1 and
\* four limbs
WideDivide(a, d) ==
    LongDivide(IF WideCompare(a, d) >= 0 THEN [digits |-> <<1>>, r |-> WideSub(a, d)]
               ELSE [digits |-> <<0>>, r |-> a], d, 4)

\* x / y for y # 0: the quotient of the mantissas to 57 or 58 bits, its
\* digits found from the top, and whether a remainder is left
DblDiv(x, y) ==
    IF IsZero(x) THEN Zero
    ELSE Quotient(x.neg # y.neg,
                  WideDivide(ShiftLeft(Wide(x.man), 3), ShiftLeft(Wide(y.man), 3)),
                  x.exp - y.exp - 4 * LimbBits)

\* floor(a / k) and the remainder, for a whole number 0 < k < 2^16, the
\* digits found from the top
ShortDivide(a, k) ==
    LET t8 == a[8]
        t7 == (t8 % k) * Base + a[7]
        t6 == (t7 % k) * Base + a[6]
        t5 == (t6 % k) * Base + a[5]
        t4 == (t5 % k) * Base + a[4]
        t3 == (t4 % k) * Base + a[3]
        t2 == (t3 % k) * Base + a[2]
        t1 == (t2 % k) * Base + a[1]
        digits == <<t8 \div k, t7 \div k, t6 \div k, t5 \div k,
                    t4 \div k, t3 \div k, t2 \div k, t1 \div k>>
    IN  [quotient |-> <<digits[8], digits[7], digits[6], digits[5],
                        digits[4], digits[3], digits[2], digits[1]>>,
         remainder |-> t1 % k]

\* the double of sign neg nearest to the quotient div at exponent e
Shortened(neg, div, e) == RoundToDouble(neg, div.quotient, e, div.remainder # 0)

\* x / k for a whole number 0 < k < 2^16
DblDivInt(x, k) ==
    IF IsZero(x) THEN Zero
    ELSE Shortened(x.neg, ShortDivide(ShiftLeft(Wide(x.man), 2 * LimbBits), k),
                   x.exp - 2 * LimbBits)

\* the double a decimal n / d denotes, for a whole number 0 < d < 2^16
Num(n, d) == DblDivInt(FromInt(n), d)

One == FromInt(1)
Ten == FromInt(10)
Hundred == FromInt(100)

\* the whole number nearest to (-1)^neg * (whole + f), a half going up, where
\* f >= 1/2 if half, and f is not 1/2 if rest
HalfUp(neg, whole, half, rest) ==
    IF ~neg THEN (IF half THEN whole + 1 ELSE whole)
    ELSE IF half /\ rest THEN 0 - (whole + 1)
    ELSE 0 - whole

\* the whole number a wide number below 2^31 is
WholeOf(w) == w[1] + Base * (w[2] + Base * w[3])

\* Math.round(x) for an x # 0 whose last k bits are behind the point
RoundedAt(x, k) ==
    HalfUp(x.neg, WholeOf(ShiftRight(Wide(x.man), k)), BitAt(x.man, k - 1) = 1,
           AnyBitBelow(x.man, k - 1))

\* Math.round(x): the integer nearest to x, a half going up
DblRound(x) ==
    IF IsZero(x) \/ 0 - x.exp > MantissaBits + 1 THEN 0 ELSE RoundedAt(x, 0 - x.exp)

(***************************************************************************)
(*                    evaluateRideability                                  *)
(***************************************************************************)
\* thresholds, in hundredths (rain mm/h, temp degrees C, pop * 100 in percent);
\* the wind thresholds in thousandths of a km/h, the unit of effectiveWind
BadPop == 8000
BadRain == 500
BadTemp == -300
BadWind == 58000
CritPop == 6000
CritRain == 200
CritWind == 43000
CritTemp == 0
OkPop == 2000
OkRain == 50
OkWind == 29000

\* const popPercent = pop * 100
popPercentOf(s) == s.pop * 100

\* mutant: a positive gust replaces the wind speed instead of bounding it
effectiveWindOf_GustOnly(s) ==
    IF s.windGust > 0 THEN s.windGust * 8 ELSE 10 * s.windSpeed

\* windGust > 0 ? Math.max(windSpeed, windGust * 0.8) : windSpeed, in
\* thousandths of a km/h (the fields are hundredths): windGust * 0.8 keeps
\* its third decimal
effectiveWindOf(s) ==
    IF s.windGust > 0 THEN Max(10 * s.windSpeed, s.windGust * 8) ELSE 10 * s.windSpeed

\* mutant: the temperature sub-condition of the first if is lost
IsBadEntry_NoTemp(s) ==
    LET popPercent == popPercentOf(s)
        effectiveWind == effectiveWindOf(s)
    IN  popPercent > BadPop \/ s.rain > BadRain \/ effectiveWind > BadWind

\* if (popPercent > 80 || rain > 5 || temp <= -3 || effectiveWind > 58)
IsBadEntry(s) ==
    LET popPercent == popPercentOf(s)
        effectiveWind == effectiveWindOf(s)
    IN  popPercent > BadPop \/ s.rain > BadRain \/ s.temp <= BadTemp \/ effectiveWind > BadWind

\* the advice chain of the first if
BadAdvice(s) ==
    LET popPercent == popPercentOf(s)
        effectiveWind == effectiveWindOf(s)
    IN  IF popPercent > BadPop THEN "Sehr hohe Regenwahrscheinlichkeit"
        ELSE IF s.rain > BadRain THEN "Starker Regen erwartet"
        ELSE IF s.temp <= BadTemp THEN "Gefaehrlich kalt, Glaettegefahr"
        ELSE IF effectiveWind > BadWind THEN "Gefaehrlicher Sturm"
        ELSE ""

\* mutant: the rain band of the second if excludes its upper end (rain < 5)
IsKritischEntry_RainOpen(s) ==
    LET popPercent == popPercentOf(s)
        effectiveWind == effectiveWindOf(s)
    IN  \/ (popPercent >= CritPop /\ popPercent <= BadPop)
        \/ (s.rain >= CritRain /\ s.rain < BadRain)
        \/ (effectiveWind >= CritWind /\ effectiveWind <= BadWind)
        \/ (s.temp > BadTemp /\ s.temp <= CritTemp)

\* the condition of the second if
IsKritischEntry(s) ==
    LET popPercent == popPercentOf(s)
        effectiveWind == effectiveWindOf(s)
    IN  \/ (popPercent >= CritPop /\ popPercent <= BadPop)
        \/ (s.rain >= CritRain /\ s.rain <= BadRain)
        \/ (effectiveWind >= CritWind /\ effectiveWind <= BadWind)
        \/ (s.temp > BadTemp /\ s.temp <= CritTemp)

\* mutant: the frost message is tested before the wind message
KritischAdvice_TempFirst(s) ==
    LET popPercent == popPercentOf(s)
        effectiveWind == effectiveWindOf(s)
    IN  IF popPercent >= CritPop THEN "Hohe Regenwahrscheinlichkeit - Regenkleidung empfohlen"
        ELSE IF s.rain >= CritRain THEN "Maessiger Regen erwartet - volle Regenausruestung empfohlen"
        ELSE IF s.temp <= CritTemp THEN "Frostgefahr - auf Glaette achten"
        ELSE IF effectiveWind >= CritWind THEN "Starker Wind - Vorsicht bei Seitenwind"
        ELSE ""

\* the advice chain of the second if
KritischAdvice(s) ==
    LET popPercent == popPercentOf(s)
        effectiveWind == effectiveWindOf(s)
    IN  IF popPercent >= CritPop THEN "Hohe Regenwahrscheinlichkeit - Regenkleidung empfohlen"
        ELSE IF s.rain >= CritRain THEN "Maessiger Regen erwartet - volle Regenausruestung empfohlen"
        ELSE IF effectiveWind >= CritWind THEN "Starker Wind - Vorsicht bei Seitenwind"
        ELSE IF s.temp <= CritTemp THEN "Frostgefahr - auf Glaette achten"
        ELSE ""

\* mutant: the wind band of the third if starts strictly above 29
IsOkEntry_WindStrict(s) ==
    LET popPercent == popPercentOf(s)
        effectiveWind == effectiveWindOf(s)
    IN  \/ (popPercent >= OkPop /\ popPercent < CritPop)
        \/ (s.rain >= OkRain /\ s.rain < CritRain)
        \/ (effectiveWind > OkWind /\ effectiveWind < CritWind)

\* the condition of the third if
IsOkEntry(s) ==
    LET popPercent == popPercentOf(s)
        effectiveWind == effectiveWindOf(s)
    IN  \/ (popPercent >= OkPop /\ popPercent < CritPop)
        \/ (s.rain >= OkRain /\ s.rain < CritRain)
        \/ (effectiveWind >= OkWind /\ effectiveWind < CritWind)

\* the advice chain of the third if
OkAdvice(s) ==
    LET popPercent == popPercentOf(s)
        effectiveWind == effectiveWindOf(s)
    IN  IF popPercent >= OkPop THEN "Regenjacke empfohlen"
        ELSE IF s.rain >= OkRain THEN "Leichter Regen moeglich - Regenschutz mitnehmen"
        ELSE IF effectiveWind >= OkWind THEN "Maessiger Wind - angepasst fahren"
        ELSE ""

GutAdvice == "Ideale Bedingungen fuers Radfahren!"

\* the sequential ifs of evaluateRideability: the first branch entered returns
evaluateRideability(s) ==
    IF IsBadEntry(s)
    THEN [level |-> "schlecht", emoji |-> "rot", label |-> "nicht empfehlenswert",
          advice |-> BadAdvice(s)]
    ELSE IF IsKritischEntry(s)
    THEN [level |-> "kritisch", emoji |-> "orange", label |-> "kritisch",
          advice |-> KritischAdvice(s)]
    ELSE IF IsOkEntry(s)
    THEN [level |-> "ok", emoji |-> "gelb", label |-> "ok mit Vorsicht",
          advice |-> OkAdvice(s)]
    ELSE [level |-> "gut", emoji |-> "gruen", label |-> "gut fahrbar",
          advice |-> GutAdvice]

\* the sample grid
MaxRainSteps == 11
TempVals == {-400, -300, -275, 0, 25, 2200}
PopVals  == {5, 10, 19, 20, 59, 60, 80, 81}
RainVals == {50 * k : k \in 0..MaxRainSteps} \cup {25, 175, 525}
WindVals == {500, 1000, 2875, 2900, 4300, 5800, 5825}
GustVals == {-100, 0, 3600, 3625, 3626, 5375, 7250, 7251, 7275}

Samples == [temp : TempVals, pop : PopVals, rain : RainVals,
            windSpeed : WindVals, windGust : GustVals]

InitRide ==
    /\ slot \in Samples
    /\ verdict = NoResult
    /\ env = NoResult /\ request = NoResult /\ results = <<>> /\ lookups = <<>>
    /\ soarIn = NoResult /\ soarOut = NoResult
    /\ winIn = NoResult /\ winOut = NoResult
    /\ atmoIn = NoResult /\ atmoOut = NoResult /\ anaIn = NoResult /\ anaOut = NoResult
    /\ safeIn = NoResult /\ safeOut = NoResult
    /\ launchSites = <<>> /\ nearIn = NoResult /\ nearOut = NoResult
    /\ gpsRequestRef = NoResult /\ promises = <<>> /\ handed = <<>> /\ store = NoResult
    /\ selected = NoResult /\ fetches = NoResult /\ viewState = NoResult /\ arrivals = <<>>

\* evaluateRideability(slot) is called on the sample
Evaluate ==
    /\ verdict = NoResult
    /\ verdict' = <<evaluateRideability(slot)>>
    /\ UNCHANGED <<slot, slotVars, soarVars, winVars, proVars>>

\* the same hour arrives with another precipitation rate and is evaluated again
EvaluateRain(r) ==
    /\ verdict # NoResult
    /\ r # slot.rain
    /\ slot' = [slot EXCEPT !.rain = r]
    /\ verdict' = <<evaluateRideability(slot')>>
    /\ UNCHANGED <<slotVars, soarVars, winVars, proVars>>

\* the same hour arrives with another gust value and is evaluated again
EvaluateGust(g) ==
    /\ verdict # NoResult
    /\ g # slot.windGust
    /\ slot' = [slot EXCEPT !.windGust = g]
    /\ verdict' = <<evaluateRideability(slot')>>
    /\ UNCHANGED <<slotVars, soarVars, winVars, proVars>>

NextRide ==
    \/ Evaluate
    \/ \E r \in RainVals : EvaluateRain(r)
    \/ \E g \in GustVals : EvaluateGust(g)

SpecRide == InitRide /\ [][NextRide]_vars

(***************************************************************************)
(* Claims about evaluateRideability.  The level conditions are written     *)
(* here as the specification states them, in the units of the model.       *)
(***************************************************************************)
\* the precipitation probability in percent: pop 0.05 (stored as 5) is 5 %
StatedPercent(s) == s.pop

StatedBad(s) ==
    StatedPercent(s) > 80 \/ s.rain > 500 \/ s.temp <= -300 \/ effectiveWindOf(s) > 58000

StatedCritical(s) ==
    \/ (60 <= StatedPercent(s) /\ StatedPercent(s) <= 80)
    \/ (200 <= s.rain /\ s.rain <= 500)
    \/ (43000 <= effectiveWindOf(s) /\ effectiveWindOf(s) <= 58000)
    \/ (-300 < s.temp /\ s.temp <= 0)

StatedModerate(s) ==
    \/ (20 <= StatedPercent(s) /\ StatedPercent(s) < 60)
    \/ (50 <= s.rain /\ s.rain < 200)
    \/ (29000 <= effectiveWindOf(s) /\ effectiveWindOf(s) < 43000)

Evaluated == verdict # NoResult

\* C1: whenever at least one Bad-level condition holds for the evaluated
\* sample, the verdict is schlecht, whatever Critical or Moderate conditions
\* hold at the same time.
C1_BadWins == Evaluated /\ StatedBad(slot) => verdict[1].level = "schlecht"

\* a sample with a Bad condition and a Critical condition was judged schlecht
C1_Witness ==
    /\ Evaluated
    /\ StatedBad(slot) /\ StatedCritical(slot) /\ StatedModerate(slot)
    /\ verdict[1].level = "schlecht"

\* the level the stated cascade assigns: the first of Bad, Critical, Moderate
\* whose condition holds, Good otherwise
StatedLevel(s) ==
    IF StatedBad(s) THEN "schlecht"
    ELSE IF StatedCritical(s) THEN "kritisch"
    ELSE IF StatedModerate(s) THEN "ok"
    ELSE "gut"

\* C2: every sample gets exactly the first level, in the order Bad, Critical,
\* Moderate, Good, whose condition holds; the verdict is Good with the fixed
\* ideal-conditions advice exactly when no Bad, Critical or Moderate
\* condition holds.
C2_FirstLevel ==
    Evaluated =>
        /\ verdict[1].level \in {"schlecht", "kritisch", "ok", "gut"}
        /\ verdict[1].level = StatedLevel(slot)
        /\ (verdict[1].level = "gut" /\ verdict[1].advice = GutAdvice)
             <=> ~(StatedBad(slot) \/ StatedCritical(slot) \/ StatedModerate(slot))

\* temp 22, windSpeed 10, windGust 0, rain 0, pop 0.05 was judged Good
C2_Witness ==
    /\ Evaluated
    /\ slot = [temp |-> 2200, pop |-> 5, rain |-> 0, windSpeed |-> 1000, windGust |-> 0]
    /\ verdict[1].level = "gut" /\ verdict[1].advice = GutAdvice

Rank(level) ==
    CASE level = "gut" -> 0 [] level = "ok" -> 1 [] level = "kritisch" -> 2
      [] level = "schlecht" -> 3

\* every field but rain is at a Good baseline
GoodBaseline(s) == StatedLevel([s EXCEPT !.rain = 0]) = "gut"

\* C3: with all other fields at a Good baseline, a sample re-evaluated with
\* a rain value at least as large never gets a more favourable verdict.
C3_RainMonotone ==
    [][(Evaluated /\ GoodBaseline(slot) /\ slot.rain <= slot'.rain)
         => Rank(verdict'[1].level) >= Rank(verdict[1].level)]_vars

\* a Good-baseline sample whose rain was raised to 5 mm/h is judged kritisch
C3_Witness ==
    /\ Evaluated /\ GoodBaseline(slot)
    /\ slot.rain = 500 /\ verdict[1].level = "kritisch"

\* the message of the first true sub-condition of a level, in the level's
\* declaration order; "" when none is true
FirstTrue(pairs) ==
    LET hits == {i \in 1..Len(pairs) : pairs[i][1]}
    IN  IF hits = {} THEN ""
        ELSE pairs[CHOOSE i \in hits : \A j \in hits : i <= j][2]

StatedAdvice(s) ==
    LET ew == effectiveWindOf(s)
    IN  CASE StatedLevel(s) = "schlecht" ->
               FirstTrue(<< <<StatedPercent(s) > 80, "Sehr hohe Regenwahrscheinlichkeit">>,
                            <<s.rain > 500, "Starker Regen erwartet">>,
                            <<s.temp <= -300, "Gefaehrlich kalt, Glaettegefahr">>,
                            <<ew > 58000, "Gefaehrlicher Sturm">> >>)
          [] StatedLevel(s) = "kritisch" ->
               FirstTrue(<< <<60 <= StatedPercent(s) /\ StatedPercent(s) <= 80,
                              "Hohe Regenwahrscheinlichkeit - Regenkleidung empfohlen">>,
                            <<200 <= s.rain /\ s.rain <= 500,
                              "Maessiger Regen erwartet - volle Regenausruestung empfohlen">>,
                            <<43000 <= ew /\ ew <= 58000,
                              "Starker Wind - Vorsicht bei Seitenwind">>,
                            <<-300 < s.temp /\ s.temp <= 0,
                              "Frostgefahr - auf Glaette achten">> >>)
          [] StatedLevel(s) = "ok" ->
               FirstTrue(<< <<20 <= StatedPercent(s) /\ StatedPercent(s) < 60, "Regenjacke empfohlen">>,
                            <<50 <= s.rain /\ s.rain < 200,
                              "Leichter Regen moeglich - Regenschutz mitnehmen">>,
                            <<29000 <= ew /\ ew < 43000,
                              "Maessiger Wind - angepasst fahren">> >>)
          [] OTHER -> GutAdvice

\* C4: for every non-Good verdict the advice is the message of the first
\* true sub-condition of the returned level, in that level's declaration
\* order, and is never empty.
C4_AdviceFirstTrue ==
    Evaluated /\ verdict[1].level # "gut" =>
        /\ verdict[1].advice = StatedAdvice(slot)
        /\ verdict[1].advice # ""

\* temp -4, windSpeed 5, windGust 0, rain 0, pop 0.1 was judged Bad with the
\* dangerous-cold advice
C4_Witness ==
    /\ Evaluated
    /\ slot = [temp |-> -400, pop |-> 10, rain |-> 0, windSpeed |-> 500, windGust |-> 0]
    /\ verdict[1].level = "schlecht"
    /\ verdict[1].advice = "Gefaehrlich kalt, Glaettegefahr"

\* max(windSpeed, 0.8 * gust) for a gust > 0, windSpeed for a gust <= 0, in
\* thousandths of a km/h
StatedEffectiveWind(s) ==
    IF s.windGust > 0
    THEN (IF 4 * s.windGust > 5 * s.windSpeed THEN 8 * s.windGust
          ELSE 10 * s.windSpeed)
    ELSE 10 * s.windSpeed

\* the level of a sample whose wind is taken to be w thousandths of a km/h
LevelAtWind(s, w) ==
    IF s.pop > 80 \/ s.rain > 500 \/ s.temp <= -300 \/ w > 58000 THEN "schlecht"
    ELSE IF s.pop >= 60 \/ s.rain >= 200 \/ w >= 43000 \/ s.temp <= 0 THEN "kritisch"
    ELSE IF s.pop >= 20 \/ s.rain >= 50 \/ w >= 29000 THEN "ok"
    ELSE "gut"

\* C19: a gust <= 0 is treated as absent (the verdict is that of windSpeed
\* alone); for a gust > 0 the verdict is that of max(windSpeed, 0.8 * gust)
\* >= windSpeed; and with all other fields fixed, a sample re-evaluated with
\* a gust at least as large never gets a more favourable verdict.
C19_GustNeverHelps ==
    [][/\ verdict' # NoResult
            => /\ verdict'[1].level = LevelAtWind(slot', StatedEffectiveWind(slot'))
               /\ StatedEffectiveWind(slot') >= 10 * slot'.windSpeed
               /\ slot'.windGust <= 0
                      => verdict'[1].level = LevelAtWind(slot', 10 * slot'.windSpeed)
       /\ (Evaluated /\ [slot' EXCEPT !.windGust = slot.windGust] = slot
               /\ slot.windGust <= slot'.windGust)
            => Rank(verdict'[1].level) >= Rank(verdict[1].level)]_vars

\* a sample with wind 28.75 km/h and no other condition, judged Good without
\* a gust, is judged Bad with a gust of 72.75 km/h
C19_Witness ==
    /\ Evaluated
    /\ slot.windSpeed = 2875 /\ slot.windGust = 7275
    /\ LevelAtWind(slot, 10 * slot.windSpeed) = "gut"
    /\ verdict[1].level = "schlecht"

(***************************************************************************)
(*          findRelevantSlots and findBestSlotInTimeWindow                 *)
(*                                                                         *)
(* A Date is the number of minutes of local wall-clock time since local    *)
(* midnight of day 0.  An "HH:mm" string is the tuple of its four digits.  *)
(* A date string "YYYY-MM-DD" is the number of its day.                    *)
(***************************************************************************)
MinutesPerDay == 1440
WindowTolerance == 30
PositiveInfinity == 1000000

\* the "HH:mm" string of hour h, minute m
HHmm(h, m) == <<h \div 10, h % 10, m \div 10, m % 10>>

\* time.split(":").map(Number); hours * 60 + minutes
timeToMinutes(time) == (time[1] * 10 + time[2]) * 60 + time[3] * 10 + time[4]

\* a < b on two strings of the same "HH:mm" shape: the first differing
\* character decides
StringLess(a, b) ==
    \E i \in 1..4 : a[i] < b[i] /\ \A j \in 1..(i - 1) : a[j] = b[j]

\* date.toISOString().split("T")[0]: the calendar day of the instant in UTC
toISODate(t, tz) == (t - tz) \div MinutesPerDay

\* slotTime.getHours() * 60 + slotTime.getMinutes(): local wall-clock
getLocalMinutes(t) == t % MinutesPerDay

\* date.setDate(date.getDate() + n): same local wall-clock time, n days on
addDays(t, n) == t + n * MinutesPerDay

\* the indices i, ascending, whose UTC date is dateStr and whose local minute
\* of day lies in [startMinutes - 30, endMinutes + 30]
matchingIndices(times, tz, dateStr, startMinutes, endMinutes) ==
    SelectSeq([i \in 1..Len(times) |-> i],
              LAMBDA i :
                  /\ toISODate(times[i], tz) = dateStr
                  /\ getLocalMinutes(times[i]) >= startMinutes - WindowTolerance
                  /\ getLocalMinutes(times[i]) <= endMinutes + WindowTolerance)

\* Math.abs(slotMinutes - targetMinutes) with targetMinutes =
\* (startMinutes + endMinutes) / 2, doubled to stay in the integers
diffTimes2(t, startMinutes, endMinutes) ==
    Abs(2 * getLocalMinutes(t) - (startMinutes + endMinutes))

\* mutant: a later candidate at the same distance replaces the best one
closestIndex_LastWins(times, matching, startMinutes, endMinutes) ==
    LET scan[k \in 0..Len(matching)] ==
            IF k = 0
            THEN [bestIndex |-> matching[1], bestDiff |-> 2 * PositiveInfinity]
            ELSE LET prev == scan[k - 1]
                     diff == diffTimes2(times[matching[k]], startMinutes, endMinutes)
                 IN  IF diff <= prev.bestDiff
                     THEN [bestIndex |-> matching[k], bestDiff |-> diff]
                     ELSE prev
    IN  scan[Len(matching)].bestIndex

\* the loop over matchingIndices: a candidate replaces the best one only when
\* it is strictly closer to the middle of the window
closestIndex(times, matching, startMinutes, endMinutes) ==
    LET scan[k \in 0..Len(matching)] ==
            IF k = 0
            THEN [bestIndex |-> matching[1], bestDiff |-> 2 * PositiveInfinity]
            ELSE LET prev == scan[k - 1]
                     diff == diffTimes2(times[matching[k]], startMinutes, endMinutes)
                 IN  IF diff < prev.bestDiff
                     THEN [bestIndex |-> matching[k], bestDiff |-> diff]
                     ELSE prev
    IN  scan[Len(matching)].bestIndex

\* the index findBestSlotInTimeWindow settles on, NoResult for null
findBestSlotInTimeWindow(times, tz, dateStr, startTime, endTime) ==
    LET startMinutes == timeToMinutes(startTime)
        endMinutes == timeToMinutes(endTime)
        matching == matchingIndices(times, tz, dateStr, startMinutes, endMinutes)
    IN  IF Len(matching) = 0 THEN NoResult
        ELSE <<closestIndex(times, matching, startMinutes, endMinutes)>>

\* the fields of the returned slot that identify the sample
slotOf(times, i) ==
    [datetime |-> times[i],
     time |-> HHmm(getLocalMinutes(times[i]) \div 60, getLocalMinutes(times[i]) % 60)]

\* the dates to check, as Date values
datesToCheck(now, zeitraum) ==
    IF zeitraum = "heute" THEN <<now>>
    ELSE IF zeitraum = "morgen" THEN <<addDays(now, 1)>>
    ELSE [i \in 1..5 |-> addDays(now, i - 1)]

\* mutant: the return leg is always looked up on the outbound date
rueckDateStr_SameDay(date, tz, shift) == toISODate(date, tz)

\* the date string of the return-leg lookup
rueckDateStr(date, tz, shift) ==
    IF StringLess(shift.rueckStart, shift.hinStart)
    THEN toISODate(addDays(date, 1), tz)
    ELSE toISODate(date, tz)

\* mutant: a date whose outbound leg is missing is given up as a whole
slotsForDate_SkipDate(e, shift, date) ==
    LET dateStr == toISODate(date, e.tz)
        hinSlot == findBestSlotInTimeWindow(e.startTimes, e.tz, dateStr,
                                            shift.hinStart, shift.hinEnd)
        rueckDate == rueckDateStr(date, e.tz, shift)
        rueckSlot == IF hinSlot = NoResult THEN NoResult
                     ELSE findBestSlotInTimeWindow(e.zielTimes, e.tz, rueckDate,
                                                   shift.rueckStart, shift.rueckEnd)
    IN  [results |->
            (IF hinSlot = NoResult THEN <<>>
             ELSE <<[slot |-> slotOf(e.startTimes, hinSlot[1]), type |-> "hin",
                     shiftName |-> shift.name, date |-> dateStr]>>)
            \o
            (IF rueckSlot = NoResult THEN <<>>
             ELSE <<[slot |-> slotOf(e.zielTimes, rueckSlot[1]), type |-> "rueck",
                     shiftName |-> shift.name, date |-> dateStr]>>),
         lookups |->
            <<[leg |-> "hin", forecast |-> "start", dateStr |-> dateStr,
               startTime |-> shift.hinStart, endTime |-> shift.hinEnd,
               found |-> hinSlot]>>
            \o
            (IF hinSlot = NoResult THEN <<>>
             ELSE <<[leg |-> "rueck", forecast |-> "ziel", dateStr |-> rueckDate,
                     startTime |-> shift.rueckStart, endTime |-> shift.rueckEnd,
                     found |-> rueckSlot]>>)]

\* one iteration of the loop over datesToCheck: the entries it pushes and the
\* two findBestSlotInTimeWindow calls it makes
slotsForDate(e, shift, date) ==
    LET dateStr == toISODate(date, e.tz)
        hinSlot == findBestSlotInTimeWindow(e.startTimes, e.tz, dateStr,
                                            shift.hinStart, shift.hinEnd)
        rueckDate == rueckDateStr(date, e.tz, shift)
        rueckSlot == findBestSlotInTimeWindow(e.zielTimes, e.tz, rueckDate,
                                              shift.rueckStart, shift.rueckEnd)
    IN  [results |->
            (IF hinSlot = NoResult THEN <<>>
             ELSE <<[slot |-> slotOf(e.startTimes, hinSlot[1]), type |-> "hin",
                     shiftName |-> shift.name, date |-> dateStr]>>)
            \o
            (IF rueckSlot = NoResult THEN <<>>
             ELSE <<[slot |-> slotOf(e.zielTimes, rueckSlot[1]), type |-> "rueck",
                     shiftName |-> shift.name, date |-> dateStr]>>),
         lookups |->
            <<[leg |-> "hin", forecast |-> "start", dateStr |-> dateStr,
               startTime |-> shift.hinStart, endTime |-> shift.hinEnd,
               found |-> hinSlot],
              [leg |-> "rueck", forecast |-> "ziel", dateStr |-> rueckDate,
               startTime |-> shift.rueckStart, endTime |-> shift.rueckEnd,
               found |-> rueckSlot]>>]

\* the whole loop: results and lookups of all dates, in date order
findRelevantSlots(e, shift, zeitraum) ==
    LET dates == datesToCheck(e.now, zeitraum)
        loop[k \in 0..Len(dates)] ==
            IF k = 0 THEN [results |-> <<>>, lookups |-> <<>>]
            ELSE LET step == slotsForDate(e, shift, dates[k])
                 IN  [results |-> loop[k - 1].results \o step.results,
                      lookups |-> loop[k - 1].lookups \o step.lookups]
    IN  loop[Len(dates)]

\* the inputs
ForecastDays == 2
FirstDay == 1

\* hourly.time of a forecast of n days from local midnight of FirstDay
HourlyTimes(n) == [i \in 1..(24 * n) |-> FirstDay * MinutesPerDay + (i - 1) * 60]

\* DEFAULT_SHIFTS, the shifts of the default settings
DEFAULT_SHIFTS ==
    { [name |-> "Fruehschicht", hinStart |-> HHmm(5, 0), hinEnd |-> HHmm(6, 0),
       rueckStart |-> HHmm(14, 30), rueckEnd |-> HHmm(15, 30)],
      [name |-> "Spaetschicht", hinStart |-> HHmm(13, 0), hinEnd |-> HHmm(14, 0),
       rueckStart |-> HHmm(22, 30), rueckEnd |-> HHmm(23, 0)],
      [name |-> "Mittelschicht", hinStart |-> HHmm(9, 0), hinEnd |-> HHmm(10, 0),
       rueckStart |-> HHmm(18, 0), rueckEnd |-> HHmm(19, 0)],
      [name |-> "Nachtschicht", hinStart |-> HHmm(21, 0), hinEnd |-> HHmm(22, 0),
       rueckStart |-> HHmm(6, 0), rueckEnd |-> HHmm(7, 0)] }

\* shifts a user added in the shift editor (handleAdd): one whose outbound
\* window begins just after midnight and one whose window spans midnight
AddedShifts ==
    { [name |-> "Mitternacht", hinStart |-> HHmm(0, 30), hinEnd |-> HHmm(1, 30),
       rueckStart |-> HHmm(9, 0), rueckEnd |-> HHmm(10, 0)],
      [name |-> "Abend", hinStart |-> HHmm(23, 30), hinEnd |-> HHmm(0, 30),
       rueckStart |-> HHmm(8, 0), rueckEnd |-> HHmm(9, 0)] }

\* settings.shifts, from which the selected shift is taken
Shifts == DEFAULT_SHIFTS \cup AddedShifts

Zeitraeume == {"heute", "morgen", "5tage"}
TzOffsets == {0, 60, 120}
NowVals == {FirstDay * MinutesPerDay + m : m \in {30, 90, 720, 1410}}

InitSlots ==
    /\ env \in [now : NowVals, tz : TzOffsets,
                startTimes : {HourlyTimes(ForecastDays)},
                zielTimes : {HourlyTimes(ForecastDays), HourlyTimes(1)}]
    /\ request = NoResult /\ results = <<>> /\ lookups = <<>>
    /\ slot = NoResult /\ verdict = NoResult
    /\ soarIn = NoResult /\ soarOut = NoResult
    /\ winIn = NoResult /\ winOut = NoResult
    /\ atmoIn = NoResult /\ atmoOut = NoResult /\ anaIn = NoResult /\ anaOut = NoResult
    /\ safeIn = NoResult /\ safeOut = NoResult
    /\ launchSites = <<>> /\ nearIn = NoResult /\ nearOut = NoResult
    /\ gpsRequestRef = NoResult /\ promises = <<>> /\ handed = <<>> /\ store = NoResult
    /\ selected = NoResult /\ fetches = NoResult /\ viewState = NoResult /\ arrivals = <<>>

\* findRelevantSlots(startWeather, zielWeather, shift, zeitraum, ...) is called
FindRelevantSlots(shift, zeitraum) ==
    /\ request' = <<[shift |-> shift, zeitraum |-> zeitraum]>>
    /\ LET r == findRelevantSlots(env, shift, zeitraum)
       IN  results' = r.results /\ lookups' = r.lookups
    /\ UNCHANGED <<env, rideVars, soarVars, winVars, proVars>>

NextSlots == \E shift \in Shifts, zeitraum \in Zeitraeume : FindRelevantSlots(shift, zeitraum)

SpecSlots == InitSlots /\ [][NextSlots]_vars

(***************************************************************************)
(* Claims about the time-window selector and findRelevantSlots.            *)
(***************************************************************************)
Called == request # NoResult

TimesOf(forecast) == IF forecast = "start" THEN env.startTimes ELSE env.zielTimes

\* the calendar day of a timestamp read as local wall-clock time
LocalDate(t) == t \div 1440

\* sample i of the lookup's forecast has local date dateStr and a local
\* minute of day within [windowStart - 30, windowEnd + 30]
InLocalWindow(L, i) ==
    LET t == TimesOf(L.forecast)[i]
    IN  /\ LocalDate(t) = L.dateStr
        /\ t % 1440 >= timeToMinutes(L.startTime) - 30
        /\ t % 1440 <= timeToMinutes(L.endTime) + 30

\* C5: every sample the selector returns has the requested calendar date and
\* a minute of day within [windowStart-30, windowEnd+30], date and minute
\* both read from the same local wall clock; the selector returns nothing
\* exactly when no sample satisfies both.
C5_LocalDateAndWindow ==
    \A k \in 1..Len(lookups) :
        LET L == lookups[k]
        IN  /\ L.found # NoResult => InLocalWindow(L, L.found[1])
            /\ L.found = NoResult <=>
                   ~ \E i \in 1..Len(TimesOf(L.forecast)) : InLocalWindow(L, i)

\* the candidates of a lookup: the samples the selector's filter lets through
Candidates(L) ==
    LET m == matchingIndices(TimesOf(L.forecast), env.tz, L.dateStr,
                             timeToMinutes(L.startTime), timeToMinutes(L.endTime))
    IN  {m[k] : k \in 1..Len(m)}

\* twice the distance of sample i from the middle of the lookup's window
MidDistance2(L, i) ==
    Abs(2 * (TimesOf(L.forecast)[i] % 1440)
        - (timeToMinutes(L.startTime) + timeToMinutes(L.endTime)))

\* C6: the returned sample is a candidate, no candidate is closer to the
\* window midpoint (windowStart+windowEnd)/2, and among the candidates at
\* the same distance it has the smallest array index.
C6_ClosestEarliest ==
    \A k \in 1..Len(lookups) :
        LET L == lookups[k]
        IN  L.found # NoResult =>
                /\ L.found[1] \in Candidates(L)
                /\ \A j \in Candidates(L) :
                       /\ MidDistance2(L, L.found[1]) <= MidDistance2(L, j)
                       /\ MidDistance2(L, L.found[1]) = MidDistance2(L, j)
                              => L.found[1] <= j

\* a lookup had two candidates equally far from the midpoint and returned
\* the earlier one
C6_Witness ==
    \E k \in 1..Len(lookups) :
        LET L == lookups[k]
        IN  /\ L.found # NoResult
            /\ \E j \in Candidates(L) :
                   /\ j > L.found[1]
                   /\ MidDistance2(L, j) = MidDistance2(L, L.found[1])

\* the dates requested by the last call, as date strings
RequestedDates ==
    LET dates == datesToCheck(env.now, request[1].zeitraum)
    IN  [k \in 1..Len(dates) |-> toISODate(dates[k], env.tz)]

LegHasSample(k, type) ==
    LET sh == request[1].shift
        D == RequestedDates[k]
        overnight == timeToMinutes(sh.rueckStart) < timeToMinutes(sh.hinStart)
    IN  IF type = "hin"
        THEN findBestSlotInTimeWindow(env.startTimes, env.tz, D,
                                      sh.hinStart, sh.hinEnd) # NoResult
        ELSE findBestSlotInTimeWindow(env.zielTimes, env.tz,
                                      IF overnight THEN D + 1 ELSE D,
                                      sh.rueckStart, sh.rueckEnd) # NoResult

\* the entries of the result for leg type of date D
EntriesOf(D, type) == {i \in 1..Len(results) : results[i].date = D /\ results[i].type = type}

\* C8: a leg without a sample is the only thing omitted: every leg of every
\* requested date that has a sample has exactly one entry, the others none,
\* and the entries stand in date order, outbound before return.
C8_SkipOnlyMissingLeg ==
    Called =>
        /\ \A k \in 1..Len(RequestedDates) : \A type \in {"hin", "rueck"} :
               Cardinality(EntriesOf(RequestedDates[k], type))
                   = IF LegHasSample(k, type) THEN 1 ELSE 0
        /\ \A i \in 1..Len(results) :
               \E k \in 1..Len(RequestedDates) : results[i].date = RequestedDates[k]
        /\ \A i, j \in 1..Len(results) :
               i < j => \/ results[i].date < results[j].date
                        \/ /\ results[i].date = results[j].date
                           /\ results[i].type = "hin" /\ results[j].type = "rueck"

\* the outbound leg of a date had no sample, its return leg is listed, and
\* so is a leg of a later date
C8_Witness ==
    /\ Called
    /\ \E k \in 1..Len(RequestedDates) :
           /\ ~LegHasSample(k, "hin")
           /\ EntriesOf(RequestedDates[k], "rueck") # {}
           /\ \E i \in 1..Len(results) : results[i].date > RequestedDates[k]

\* the dates the outbound legs of the last call were looked up on
OutboundDates == [k \in 1..(Len(lookups) \div 2) |-> lookups[2 * k - 1].dateStr]

\* C28: the calendar dates findRelevantSlots queries are the local
\* wall-clock dates of today for "heute", of tomorrow for "morgen" and of
\* today through today+4 for "5tage", at whatever time of day it is called.
C28_LocalCalendarDates ==
    Called =>
        LET today == LocalDate(env.now)
        IN  OutboundDates
                = (IF request[1].zeitraum = "heute" THEN <<today>>
                   ELSE IF request[1].zeitraum = "morgen" THEN <<today + 1>>
                   ELSE [k \in 1..5 |-> today + k - 1])

\* the part of C28 that holds: a call made when the local and the UTC
\* calendar date agree queries the local dates
C28_LocalDatesAwayFromMidnight ==
    Called /\ toISODate(env.now, env.tz) = LocalDate(env.now) =>
        LET today == LocalDate(env.now)
        IN  OutboundDates
                = (IF request[1].zeitraum = "heute" THEN <<today>>
                   ELSE IF request[1].zeitraum = "morgen" THEN <<today + 1>>
                   ELSE [k \in 1..5 |-> today + k - 1])

(***************************************************************************)
(*        analyzeSoaringConditions (ridge part) and detectLeeRisk          *)
(*                                                                         *)
(* Directions are whole degrees, wind speeds whole km/h.                   *)
(***************************************************************************)
RidgeMaxAngle == 45
RidgeMinWind == 10
RidgeMaxWind == 35
RidgeFullLiftWind == 25
LeeMinAngle == 90
LeeMinWind == 15
LeeHighWind == 20
LeeExtremeWind == 30

\* JavaScript's a % n: the remainder has the sign of the dividend
JsRemainder(a, n) == IF a >= 0 THEN a % n ELSE 0 - ((0 - a) % n)

\* Math.abs(((direction - launchOrientation + 180) % 360) - 180)
windAngleOf(direction, launchOrientation) ==
    Abs(JsRemainder(direction - launchOrientation + 180, 360) - 180)

\* the ridge part of analyzeSoaringConditions
analyzeRidge(surface, launchOrientation) ==
    LET windAngle == windAngleOf(surface.direction, launchOrientation)
        ridgeSuitable == /\ windAngle < RidgeMaxAngle
                         /\ surface.speed > RidgeMinWind
                         /\ surface.speed < RidgeMaxWind
    IN  [suitable |-> ridgeSuitable,
         windAngle |-> windAngle,
         \* Math.min(10, Math.round((speed / 25) * 10))
         liftPotential |->
             IF ridgeSuitable
             THEN Min(10, (2 * 10 * surface.speed + RidgeFullLiftWind)
                              \div (2 * RidgeFullLiftWind))
             ELSE 0,
         conditions |->
             IF ridgeSuitable THEN "Gute Hangaufwinde"
             ELSE IF windAngle > LeeMinAngle THEN "Lee-Seite - Hangaufwinde nicht moeglich"
             ELSE "Wind zu schraeg oder zu schwach fuer Hangaufwinde"]

\* detectLeeRisk: the level of the risk factor, NoResult for null
detectLeeRisk(windSpeed, windDirection, launchOrientation) ==
    LET angle == windAngleOf(windDirection, launchOrientation)
    IN  IF angle > LeeMinAngle /\ windSpeed > LeeMinWind
        THEN <<[name |-> "Lee-Turbulenz",
                level |-> IF windSpeed > LeeExtremeWind THEN "extreme"
                          ELSE IF windSpeed > LeeHighWind THEN "high"
                          ELSE "moderate"]>>
        ELSE NoResult

MaxDirSteps == 23
Directions == {(15 * k) % 360 : k \in 0..MaxDirSteps} \cup {44, 46, 89, 91, 179, 181, 271, 359}
SurfaceSpeeds == {5, 10, 11, 15, 16, 20, 21, 25, 30, 31, 34, 35, 40}

InitSoar ==
    /\ soarIn \in [windDirection : Directions, windSpeed : SurfaceSpeeds,
                   launchOrientation : Directions]
    /\ soarOut = NoResult
    /\ slot = NoResult /\ verdict = NoResult
    /\ env = NoResult /\ request = NoResult /\ results = <<>> /\ lookups = <<>>
    /\ winIn = NoResult /\ winOut = NoResult
    /\ atmoIn = NoResult /\ atmoOut = NoResult /\ anaIn = NoResult /\ anaOut = NoResult
    /\ safeIn = NoResult /\ safeOut = NoResult
    /\ launchSites = <<>> /\ nearIn = NoResult /\ nearOut = NoResult
    /\ gpsRequestRef = NoResult /\ promises = <<>> /\ handed = <<>> /\ store = NoResult
    /\ selected = NoResult /\ fetches = NoResult /\ viewState = NoResult /\ arrivals = <<>>

\* the ridge analysis and the lee detection of generateParaglidingAnalysis
AnalyzeSite ==
    /\ soarOut = NoResult
    /\ soarOut' = <<[ridge |-> analyzeRidge([speed |-> soarIn.windSpeed,
                                             direction |-> soarIn.windDirection],
                                            soarIn.launchOrientation),
                     leeRisk |-> detectLeeRisk(soarIn.windSpeed, soarIn.windDirection,
                                               soarIn.launchOrientation)]>>
    /\ UNCHANGED <<soarIn, rideVars, slotVars, winVars, proVars>>

NextSoar == AnalyzeSite

SpecSoar == InitSoar /\ [][NextSoar]_vars

\* the smaller angular difference between two directions
SmallerAngle(a, b) == Min(Abs(a - b), 360 - Abs(a - b))

\* C9: for every wind direction and launch orientation in 0..359 the
\* angle-off-orientation used for ridge suitability and for lee detection
\* lies in [0,180] and equals min(d, 360-d) with d = |windDir - orientation|.
C9_AngleFolded ==
    soarOut # NoResult =>
        LET expected == SmallerAngle(soarIn.windDirection, soarIn.launchOrientation)
        IN  /\ soarOut[1].ridge.windAngle \in 0..180
            /\ soarOut[1].ridge.windAngle = expected
            /\ soarOut[1].leeRisk # NoResult
                   <=> (expected > 90 /\ soarIn.windSpeed > 15)

\* C20: a lee risk is reported exactly when the angle-off-orientation (the
\* smaller angle between wind direction and launch orientation) is > 90
\* degrees and the surface wind is > 15 km/h, with level extreme if wind > 30,
\* high if wind > 20, else moderate; in every other case none is reported.
C20_LeeRiskExactly ==
    soarOut # NoResult =>
        LET angle == SmallerAngle(soarIn.windDirection, soarIn.launchOrientation)
        IN  IF angle > 90 /\ soarIn.windSpeed > 15
            THEN /\ soarOut[1].leeRisk # NoResult
                 /\ soarOut[1].leeRisk[1].level
                        = (IF soarIn.windSpeed > 30 THEN "extreme"
                           ELSE IF soarIn.windSpeed > 20 THEN "high" ELSE "moderate")
            ELSE soarOut[1].leeRisk = NoResult

(***************************************************************************)
(*                          findBestWindow                                 *)
(*                                                                         *)
(* data.hourly is a sequence of hours, index i of the code being element   *)
(* i + 1.  A field is <<v>>, or <<>> when the array has no value there.    *)
(* hour is the local hour of day of data.hourly.time[i].  rain is in       *)
(* tenths of a millimetre, the other fields in their own units.            *)
(***************************************************************************)
FirstFlyingHour == 9
LastFlyingHour == 19
InitialBestScore == -1

\* x || 0
orZero(x) == IF Missing(x) THEN 0 ELSE x[1]

\* the heuristic score of one hour
windowScore(h) ==
    LET cape == orZero(h.cape)
        wind == orZero(h.wind)
        gust == orZero(h.gust)
        temp == orZero(h.temp)
        rain == orZero(h.rain)
    IN  (IF cape > 500 /\ cape < 1500 THEN 30
         ELSE IF cape >= 1500 /\ cape < 2500 THEN 20
         ELSE IF cape >= 2500 THEN 5 ELSE 0)
      + (IF wind >= 10 /\ wind <= 25 THEN 30
         ELSE IF wind > 25 /\ wind <= 35 THEN 10 ELSE 0)
      + (IF gust < 35 THEN 20 ELSE IF gust < 45 THEN 10 ELSE 0)
      + (IF temp > 15 THEN 10 ELSE 0)
      + (IF temp > 20 THEN 10 ELSE 0)
      - (IF rain > 0 THEN 50 ELSE 0)
      + (IF h.hour >= 11 /\ h.hour <= 16 THEN 15 ELSE 0)

\* the loop of findBestWindow over i = startHour .. endHour - 1
findBestWindow(hourly, startHour, durationHours) ==
    LET endHour == Min(startHour + durationHours, Len(hourly))
        scan[i \in (startHour - 1)..(endHour - 1)] ==
            IF i = startHour - 1
            THEN [bestIndex |-> startHour, bestScore |-> InitialBestScore]
            ELSE LET prev == scan[i - 1]
                     h == hourly[i + 1]
                 IN  IF h.hour < FirstFlyingHour \/ h.hour > LastFlyingHour THEN prev
                     ELSE IF windowScore(h) > prev.bestScore
                          THEN [bestIndex |-> i, bestScore |-> windowScore(h)]
                          ELSE prev
    IN  scan[endHour - 1].bestIndex

MaxHours == 4
Durations == {3, 12, 24}
FirstHours == {7, 8, 9, 10, 17, 18}

Weathers ==
    { [cape |-> <<1000>>, wind |-> <<15>>, gust |-> <<20>>, temp |-> <<22>>, rain |-> <<0>>],
      [cape |-> <<3000>>, wind |-> <<30>>, gust |-> <<40>>, temp |-> <<16>>, rain |-> <<0>>],
      [cape |-> <<0>>, wind |-> <<5>>, gust |-> <<10>>, temp |-> <<10>>, rain |-> <<0>>],
      [cape |-> <<0>>, wind |-> <<5>>, gust |-> <<40>>, temp |-> <<10>>, rain |-> <<5>>],
      [cape |-> <<0>>, wind |-> <<5>>, gust |-> <<50>>, temp |-> <<10>>, rain |-> <<20>>] }

\* the forecast that starts at local hour first with the given weathers
HourlyData(first, ws) ==
    [i \in 1..Len(ws) |->
        [hour |-> (first + i - 1) % 24, cape |-> ws[i].cape, wind |-> ws[i].wind,
         gust |-> ws[i].gust, temp |-> ws[i].temp, rain |-> ws[i].rain]]

InitWin ==
    /\ \E first \in FirstHours, ws \in [1..MaxHours -> Weathers] :
           winIn = [hourly |-> HourlyData(first, ws)]
    /\ winOut = NoResult
    /\ slot = NoResult /\ verdict = NoResult
    /\ env = NoResult /\ request = NoResult /\ results = <<>> /\ lookups = <<>>
    /\ soarIn = NoResult /\ soarOut = NoResult
    /\ atmoIn = NoResult /\ atmoOut = NoResult /\ anaIn = NoResult /\ anaOut = NoResult
    /\ safeIn = NoResult /\ safeOut = NoResult
    /\ launchSites = <<>> /\ nearIn = NoResult /\ nearOut = NoResult
    /\ gpsRequestRef = NoResult /\ promises = <<>> /\ handed = <<>> /\ store = NoResult
    /\ selected = NoResult /\ fetches = NoResult /\ viewState = NoResult /\ arrivals = <<>>

\* findBestWindow(data, 0, durationHours), as generateMultiProfileForecast calls it
FindBestWindow(durationHours) ==
    /\ winOut' = <<[startHour |-> 0, durationHours |-> durationHours,
                    bestIndex |-> findBestWindow(winIn.hourly, 0, durationHours)]>>
    /\ UNCHANGED <<winIn, rideVars, slotVars, soarVars, proVars>>

NextWin == \E durationHours \in Durations : FindBestWindow(durationHours)

SpecWin == InitWin /\ [][NextWin]_vars

\* the scanned indices whose local hour of day lies in [9,19]
FlyingIndices ==
    {i \in winOut[1].startHour ..
           (Min(winOut[1].startHour + winOut[1].durationHours, Len(winIn.hourly)) - 1) :
        winIn.hourly[i + 1].hour \in 9..19}

\* C10: when the scanned range has an hour in [9,19], the returned index is
\* such an hour with the maximum heuristic score, the earliest one on ties,
\* whatever the sign of the scores.
C10_BestOfFlyingHours ==
    winOut # NoResult /\ FlyingIndices # {} =>
        LET best == winOut[1].bestIndex
        IN  /\ best \in FlyingIndices
            /\ \A j \in FlyingIndices :
                   /\ windowScore(winIn.hourly[best + 1]) >= windowScore(winIn.hourly[j + 1])
                   /\ windowScore(winIn.hourly[best + 1]) = windowScore(winIn.hourly[j + 1])
                          => best <= j

(***************************************************************************)
(*   calculateLCL, analyzeCAPE and buildAtmosphericProfile (thermals)      *)
(*                                                                         *)
(* temp and dewpoint are given in hundredths of a degree and enter the     *)
(* computation as the doubles of these decimals; spread and heightAGL are  *)
(* doubles, the returned height is in whole metres; CAPE is in whole J/kg. *)
(* The temperature and the pressure at the LCL are not part of the model.  *)
(***************************************************************************)
MetresPerDegree == FromInt(125)
LclVeryLow == FromInt(800)
LclLow == FromInt(1200)
LclModerate == FromInt(1800)
LclHigh == FromInt(2500)
CapeNone == 100
CapeWeak == 500
CapeModerate == 1500
CapeStrong == 2500
LfcCape == 200
LfcAboveLcl == 300
LfcReachableBelow == 1500
DefaultLayerHeight == 1500
MaxStrengthTenths == 100

\* the double of a temperature given in hundredths of a degree
Degrees(t) == Num(t, 100)

\* calculateLCL(temp, dewpoint, elevation): height, Math.round(heightAGL),
\* and the classification of the unrounded heightAGL
calculateLCL(temp, dewpoint) ==
    LET spread == DblSub(Degrees(temp), Degrees(dewpoint))
        lcl(heightAGL) ==
            [height |-> DblRound(heightAGL),
             classification |->
                 IF DblLess(heightAGL, LclVeryLow) THEN "very_low"
                 ELSE IF DblLess(heightAGL, LclLow) THEN "low"
                 ELSE IF DblLess(heightAGL, LclModerate) THEN "moderate"
                 ELSE IF DblLess(heightAGL, LclHigh) THEN "high"
                 ELSE "very_high"]
    IN  lcl(DblMul(spread, MetresPerDegree))

\* mutant: a CAPE of exactly 1500 still counts as moderate
analyzeCAPE_StrongInclusive(cape) ==
    [surface |-> cape, mucape |-> cape, sbcape |-> cape,
     level |-> IF cape < CapeNone THEN "none"
               ELSE IF cape < CapeWeak THEN "weak"
               ELSE IF cape <= CapeModerate THEN "moderate"
               ELSE IF cape < CapeStrong THEN "strong"
               ELSE "extreme"]

\* analyzeCAPE(cape)
analyzeCAPE(cape) ==
    [surface |-> cape, mucape |-> cape, sbcape |-> cape,
     level |-> IF cape < CapeNone THEN "none"
               ELSE IF cape < CapeWeak THEN "weak"
               ELSE IF cape < CapeModerate THEN "moderate"
               ELSE IF cape < CapeStrong THEN "strong"
               ELSE "extreme"]

(***************************************************************************)
(*  generateParaglidingAnalysis: wind profile, wind shear, thermals, the   *)
(*  four risk detectors, evaluateSafetyLevel and the pilot recommendation  *)
(*                                                                         *)
(* The hour's fields are whole numbers (km/h, degrees, J/kg), temperature  *)
(* in hundredths of a degree; a field is <<v>>, <<>> when the array has no *)
(* value at the index, or Null.  The speeds of a wind profile and the wind *)
(* shear (m/s per km) are doubles; avgSpeed, which the program rounds to   *)
(* one decimal, is in tenths of km/h.  The thermal strength is computed as *)
(* its square in millionths of (m/s)^2 and returned rounded, in tenths of  *)
(* m/s; the sine of the time factor is its square in units of 1e-8;        *)
(* consistency is in tenths, the confidence of the XC analysis, which the  *)
(* program rounds to two decimals, in hundredths; heights are whole        *)
(* metres.  A double the program keeps in a const and uses more than once  *)
(* is the parameter of a local operator here (heightAGL, maxShear, the     *)
(* bands of the wind profile, atmosphere), so that it is written once.     *)
(***************************************************************************)
BoundaryFactor == Num(12, 10)
MidFactor == Num(14, 10)
HighFactor == Num(18, 10)
KmhPerMs == Num(36, 10)
HighVeering == 20
ShearLow == FromInt(5)
ShearModerate == FromInt(10)
ShearHigh == FromInt(15)
TurbulenceShear == 15
TurbulenceScale == FromInt(10)
MaxTurbulence == 10
GlideRatio == 8
FullCloudbase == 2000
ConsistencyWeight == Num(6, 10)
CloudbaseWeight == Num(4, 10)
GustFactorLimit == 16
GustHigh == 40
GustExtreme == 50
TurbulenceCape == 2000
TurbulenceHighCape == 3000
TurbulenceConsistency == 5
DeductExtreme == 50
DeductHigh == 30
DeductModerate == 15
DeductLow == 5
ThermalBonus == 10
BonusThermalIndex == 7
FullScore == 100
ScoreOptimal == 80
ScoreGood == 60
ScoreMarginal == 40
ScorePoor == 20
ExpertBelow == 40
AdvancedBelow == 60
IntermediateBelow == 75

\* x || d: d replaces a missing value, and a value of 0 as well
orElse(x, d) == IF Missing(x) \/ x[1] = 0 THEN d ELSE x[1]

\* buildWindProfile(hourlyData, index); h is the hour at the index.
\* avgSpeed is Math.round(avgSpeed * 10) / 10 in tenths; avgDirection is
\* Math.round of the mean of three whole directions, a third never being a half
buildWindProfile(h) ==
    LET profile(surface, boundary, mid, high) ==
            [surface |-> surface,
             boundary |-> boundary,
             mid |-> mid,
             high |-> high,
             avgSpeed |->
                 DblRound(DblMul(DblDivInt(DblAdd(DblAdd(surface.speed, boundary.speed),
                                                  mid.speed), 3), Ten)),
             avgDirection |->
                 (2 * (surface.direction + boundary.direction + mid.direction) + 3) \div 6,
             directionChange |-> Abs(high.direction - surface.direction)]
        above(surface) ==
            profile(surface,
                    [speed |-> IF Missing(h.wind_speed_80m) \/ h.wind_speed_80m[1] = 0
                               THEN DblMul(surface.speed, BoundaryFactor)
                               ELSE FromInt(h.wind_speed_80m[1]),
                     direction |-> orElse(h.wind_direction_80m, surface.direction)],
                    [speed |-> IF Missing(h.wind_speed_120m) \/ h.wind_speed_120m[1] = 0
                               THEN DblMul(surface.speed, MidFactor)
                               ELSE FromInt(h.wind_speed_120m[1]),
                     direction |-> orElse(h.wind_direction_120m, surface.direction)],
                    [speed |-> DblMul(surface.speed, HighFactor),
                     direction |-> surface.direction + HighVeering])
    IN  above([speed |-> FromInt(orZero(h.wind_speed_10m)),
               direction |-> orZero(h.wind_direction_10m)])

\* mutant: the turbulence potential is not capped at 10
calculateWindShear_NoCap(windProfile) ==
    LET shear_0_1km ==
            DblDiv(DblAbs(DblSub(windProfile.boundary.speed, windProfile.surface.speed)),
                   KmhPerMs)
        shear_1_3km ==
            DblDiv(DblDivInt(DblAbs(DblSub(windProfile.high.speed, windProfile.mid.speed)), 2),
                   KmhPerMs)
        shear(maxShear) ==
            [maxShear |-> maxShear,
             level |-> IF DblLess(maxShear, ShearLow) THEN "low"
                       ELSE IF DblLess(maxShear, ShearModerate) THEN "moderate"
                       ELSE IF DblLess(maxShear, ShearHigh) THEN "high"
                       ELSE "severe",
             turbulencePotential |->
                 DblRound(DblMul(DblDivInt(maxShear, TurbulenceShear), TurbulenceScale))]
    IN  shear(DblMax(shear_0_1km, shear_1_3km))

\* calculateWindShear(windProfile): the greater shear maxShear, which the
\* program does not return, its level and the turbulence potential
\* Math.min(10, Math.round((maxShear / 15) * 10))
calculateWindShear(windProfile) ==
    LET shear_0_1km ==
            DblDiv(DblAbs(DblSub(windProfile.boundary.speed, windProfile.surface.speed)),
                   KmhPerMs)
        shear_1_3km ==
            DblDiv(DblDivInt(DblAbs(DblSub(windProfile.high.speed, windProfile.mid.speed)), 2),
                   KmhPerMs)
        shear(maxShear) ==
            [maxShear |-> maxShear,
             level |-> IF DblLess(maxShear, ShearLow) THEN "low"
                       ELSE IF DblLess(maxShear, ShearModerate) THEN "moderate"
                       ELSE IF DblLess(maxShear, ShearHigh) THEN "high"
                       ELSE "severe",
             turbulencePotential |->
                 Min(MaxTurbulence,
                     DblRound(DblMul(DblDivInt(maxShear, TurbulenceShear),
                                     TurbulenceScale)))]
    IN  shear(DblMax(shear_0_1km, shear_1_3km))

\* Math.sin(((hour - 10) / 7) * Math.PI) squared, in units of 1e-8, for hour
\* in 10..17 (the sine of hour 17 is 1.2e-16 in the code, its square 0 here)
SinSquared(hour) ==
    CASE hour = 11 \/ hour = 16 -> 18825510
      [] hour = 12 \/ hour = 15 -> 61126047
      [] hour = 13 \/ hour = 14 -> 95048443
      [] OTHER -> 0

\* x > limit for a value that may be undefined or not a number (the
\* comparison is false) or null (compared as 0)
Exceeds(x, limit) == x # <<>> /\ x[1] > limit

\* a * b / d as quotient and remainder, for 0 <= a < d, computed by halving
\* b so that no intermediate value leaves the 32-bit integers
RECURSIVE MulDiv(_, _, _)
MulDiv(a, b, d) ==
    IF b = 0 THEN [quotient |-> 0, remainder |-> 0]
    ELSE LET half == MulDiv(a, b \div 2, d)
             rest == 2 * half.remainder + (IF b % 2 = 1 THEN a ELSE 0)
         IN  [quotient |-> 2 * half.quotient + rest \div d, remainder |-> rest % d]

\* x > limit for an x given as quotient and remainder
Above(x, limit) == x.quotient > limit \/ (x.quotient = limit /\ x.remainder > 0)

\* Math.round(strength * 10) of a strength given as its square in
\* millionths: the n with n - 0.5 <= strength * 10 < n + 0.5
RoundedTenths(squared) ==
    CHOOSE n \in 0..MaxStrengthTenths :
        /\ n = 0 \/ 2500 * (2 * n - 1) * (2 * n - 1) <= squared
        /\ squared < 2500 * (2 * n + 1) * (2 * n + 1)

\* mutant: the index reaches 10 on the strength alone
analyzeThermalConditions_StrengthOnly(cape, lcl, boundaryLayerHeight, hour, temp) ==
    LET timeFactor == IF hour >= 10 /\ hour <= 17 THEN SinSquared(hour) ELSE 0
        boost == IF Exceeds(temp, 2500) THEN 17424
                 ELSE IF Exceeds(temp, 2000) THEN 12100 ELSE 10000
        strength == MulDiv(timeFactor, cape * boost, 500000000)
        consistency == IF cape > 500 /\ cape < 1500 THEN 8
                       ELSE IF cape > 1500 /\ cape < 2500 THEN 6
                       ELSE IF cape > 2500 THEN 3 ELSE 5
    IN  [strength |-> RoundedTenths(strength.quotient),
         tops |-> IF lcl = <<>> THEN <<>> ELSE <<Min(lcl[1], boundaryLayerHeight)>>,
         consistency |-> consistency,
         index |-> IF Above(strength, 6250000) THEN 10
                   ELSE IF Above(strength, 4000000) THEN 9
                   ELSE IF Above(strength, 2250000) THEN 7
                   ELSE IF Above(strength, 1000000) THEN 5
                   ELSE IF Above(strength, 250000) THEN 3 ELSE 0]

\* analyzeThermalConditions(cape, lcl, boundaryLayerHeight, hour, temp): the
\* local strength is its square (2 * cape / 1000) * timeFactor^2 * boost^2 in
\* millionths of (m/s)^2, boost^2 being 1.21 above 20 degrees and 1.7424
\* above 25; returned are the strength in tenths of m/s, tops (<<>> when the
\* LCL is not a number), consistency and index; the spacing is not part of
\* the model
analyzeThermalConditions(cape, lcl, boundaryLayerHeight, hour, temp) ==
    LET timeFactor == IF hour >= 10 /\ hour <= 17 THEN SinSquared(hour) ELSE 0
        boost == IF Exceeds(temp, 2500) THEN 17424
                 ELSE IF Exceeds(temp, 2000) THEN 12100 ELSE 10000
        strength == MulDiv(timeFactor, cape * boost, 500000000)
        consistency == IF cape > 500 /\ cape < 1500 THEN 8
                       ELSE IF cape > 1500 /\ cape < 2500 THEN 6
                       ELSE IF cape > 2500 THEN 3 ELSE 5
    IN  [strength |-> RoundedTenths(strength.quotient),
         tops |-> IF lcl = <<>> THEN <<>> ELSE <<Min(lcl[1], boundaryLayerHeight)>>,
         consistency |-> consistency,
         index |-> IF Above(strength, 6250000) /\ consistency > 5 THEN 10
                   ELSE IF Above(strength, 4000000) THEN 9
                   ELSE IF Above(strength, 2250000) THEN 7
                   ELSE IF Above(strength, 1000000) THEN 5
                   ELSE IF Above(strength, 250000) THEN 3 ELSE 0]

\* mutant: an LFC that exists is always reachable
calculateLFC_AlwaysReachable(cape, lcl, boundaryLayerHeight) ==
    LET exists == cape > LfcCape
        heightEstimate == IF ~exists THEN <<0>>
                          ELSE IF lcl = <<>> THEN <<>>
                          ELSE <<Min(lcl[1] + LfcAboveLcl, boundaryLayerHeight)>>
    IN  [height |-> heightEstimate, exists |-> exists, reachable |-> exists]

\* calculateLFC(cape, lcl, boundaryLayerHeight); lcl is <<>> when the LCL
\* height is not a number, and so is then the height of an LFC that exists
calculateLFC(cape, lcl, boundaryLayerHeight) ==
    LET exists == cape > LfcCape
        heightEstimate == IF ~exists THEN <<0>>
                          ELSE IF lcl = <<>> THEN <<>>
                          ELSE <<Min(lcl[1] + LfcAboveLcl, boundaryLayerHeight)>>
    IN  [height |-> heightEstimate,
         exists |-> exists,
         reachable |-> /\ exists
                       /\ heightEstimate # <<>>
                       /\ heightEstimate[1] < LfcReachableBelow]

\* buildAtmosphericProfile(data, index, elevation); h is the hour at the
\* index.  An undefined temperature or dewpoint makes the LCL height not a
\* number (<<>>), which no band contains; a null one enters temp - dewpoint
\* as 0.  The lifted index, the temperature and the pressure at the LCL are
\* not part of the model.
buildAtmosphericProfile(h) ==
    LET temp == h.temperature_2m
        dewpoint == h.dewpoint_2m
        cape == orZero(h.cape)
        boundaryLayerHeight == orElse(h.boundary_layer_height, DefaultLayerHeight)
        number(computed) ==
            [height |-> <<computed.height>>, classification |-> computed.classification]
        profile(lcl, windProfile) ==
            [lcl |-> lcl,
             cape |-> analyzeCAPE(cape),
             lfc |-> calculateLFC(cape, lcl.height, boundaryLayerHeight),
             windProfile |-> windProfile,
             windShear |-> calculateWindShear(windProfile),
             thermal |-> analyzeThermalConditions(cape, lcl.height, boundaryLayerHeight,
                                                  h.hour, temp),
             boundaryLayerHeight |-> boundaryLayerHeight]
    IN  profile(IF temp = <<>> \/ dewpoint = <<>>
                THEN [height |-> <<>>, classification |-> "very_high"]
                ELSE number(calculateLCL(temp[1], dewpoint[1])),
                buildWindProfile(h))

AtmoTemps == {Null, <<180>>, <<810>>, <<1000>>, <<2000>>, <<2025>>, <<3000>>, <<3500>>}
AtmoDewpoints == {<<-580>>, <<-500>>, <<-460>>, <<0>>, <<600>>, <<1000>>, <<1400>>, <<1450>>,
                  <<1500>>, <<2100>>}
AtmoCapes == {<<>>, <<0>>, <<99>>, <<100>>, <<200>>, <<201>>, <<499>>, <<500>>, <<1200>>,
              <<1499>>, <<1500>>, <<2499>>, <<2500>>, <<3000>>}
AtmoLayerHeights == {<<>>, <<0>>, <<800>>, <<1499>>, <<1500>>, <<2500>>}
AtmoHours == {9, 12, 14}

\* the hours buildAtmosphericProfile is called on
AtmoInputs ==
    [temperature_2m : AtmoTemps, dewpoint_2m : AtmoDewpoints, cape : AtmoCapes,
     boundary_layer_height : AtmoLayerHeights, hour : AtmoHours,
     wind_speed_10m : {<<15>>}, wind_direction_10m : {<<270>>},
     wind_speed_80m : {<<>>}, wind_direction_80m : {<<>>},
     wind_speed_120m : {<<>>}, wind_direction_120m : {<<>>}]

InitAtmo ==
    /\ atmoIn \in AtmoInputs
    /\ atmoOut = NoResult
    /\ slot = NoResult /\ verdict = NoResult
    /\ env = NoResult /\ request = NoResult /\ results = <<>> /\ lookups = <<>>
    /\ soarIn = NoResult /\ soarOut = NoResult
    /\ winIn = NoResult /\ winOut = NoResult
    /\ anaIn = NoResult /\ anaOut = NoResult
    /\ safeIn = NoResult /\ safeOut = NoResult
    /\ launchSites = <<>> /\ nearIn = NoResult /\ nearOut = NoResult
    /\ gpsRequestRef = NoResult /\ promises = <<>> /\ handed = <<>> /\ store = NoResult
    /\ selected = NoResult /\ fetches = NoResult /\ viewState = NoResult /\ arrivals = <<>>

\* buildAtmosphericProfile(data, index, elevation) is called
BuildAtmosphericProfile ==
    /\ atmoOut = NoResult
    /\ atmoOut' = <<buildAtmosphericProfile(atmoIn)>>
    /\ UNCHANGED <<atmoIn, rideVars, slotVars, soarVars, winVars, anaVars, safeVars, siteVars,
                   gpsVars, loadVars>>

NextAtmo == BuildAtmosphericProfile

SpecAtmo == InitAtmo /\ [][NextAtmo]_vars

\* the class the thresholds 800, 1200, 1800, 2500 give a height in metres
StatedLclClass(height) ==
    IF height < 800 THEN "very_low"
    ELSE IF height < 1200 THEN "low"
    ELSE IF height < 1800 THEN "moderate"
    ELSE IF height < 2500 THEN "high"
    ELSE "very_high"

\* Math.round of a number given in hundredths: the nearest whole number, a
\* half going up
StatedRound(hundredths) == (hundredths + 50) \div 100

\* C15: calculateLCL returns height = round(125 * (temp - dewpoint)) and
\* classifies the height as very_low below 800, low below 1200, moderate
\* below 1800, high below 2500, else very_high; calculateLCL(20, 14, 0)
\* returns height 750 with classification very_low.  Temperature and
\* dewpoint are in hundredths of a degree, so 125 * (temp - dewpoint) is the
\* product in hundredths of a metre.
C15_LclHeightAndClass ==
    atmoOut # NoResult =>
        LET lcl == atmoOut[1].lcl
            exact == 125 * (atmoIn.temperature_2m[1] - atmoIn.dewpoint_2m[1])
        IN  /\ lcl.height = <<StatedRound(exact)>>
            /\ lcl.classification = StatedLclClass(lcl.height[1])
            /\ (atmoIn.temperature_2m = <<2000>> /\ atmoIn.dewpoint_2m = <<1400>>)
                   => (lcl.height = <<750>> /\ lcl.classification = "very_low")

\* what calculateLCL returns instead: the height is the rounded product of
\* the doubles, within half a metre of the exact product, and the class is
\* that of the unrounded product of the doubles
C15_OfTheDoubleProduct ==
    atmoOut # NoResult =>
        LET lcl == atmoOut[1].lcl
            product == DblMul(FromInt(125), DblSub(Degrees(atmoIn.temperature_2m[1]),
                                                   Degrees(atmoIn.dewpoint_2m[1])))
            exact == 125 * (atmoIn.temperature_2m[1] - atmoIn.dewpoint_2m[1])
            class == IF DblLess(product, FromInt(800)) THEN "very_low"
                     ELSE IF DblLess(product, FromInt(1200)) THEN "low"
                     ELSE IF DblLess(product, FromInt(1800)) THEN "moderate"
                     ELSE IF DblLess(product, FromInt(2500)) THEN "high"
                     ELSE "very_high"
        IN  /\ lcl.height = <<DblRound(product)>>
            /\ Abs(100 * lcl.height[1] - exact) <= 50
            /\ lcl.classification = class

\* temperature 1.8 and dewpoint -4.6 have been analysed: the spread of the
\* doubles is 6.3999999999999995 and the product 799.9999999999999, returned
\* as height 800 with the class very_low
C15_RoundedUpIntoLow ==
    /\ atmoOut # NoResult
    /\ atmoIn.temperature_2m = <<180>> /\ atmoIn.dewpoint_2m = <<-460>>
    /\ atmoOut[1].lcl.height = <<800>>
    /\ atmoOut[1].lcl.classification = "very_low"

\* temperature 8.1 and dewpoint -5.8 have been analysed: the exact product is
\* 1737.5, that of the doubles is below it and is returned as height 1737
C15_HalfRoundedDown ==
    /\ atmoOut # NoResult
    /\ atmoIn.temperature_2m = <<810>> /\ atmoIn.dewpoint_2m = <<-580>>
    /\ atmoOut[1].lcl.height = <<1737>>
    /\ atmoOut[1].lcl.classification = "moderate"

\* the band [lower, upper) a raw CAPE value lies in
StatedCapeLevel(cape) ==
    IF cape \in 100..499 THEN "weak"
    ELSE IF cape \in 500..1499 THEN "moderate"
    ELSE IF cape \in 1500..2499 THEN "strong"
    ELSE IF cape >= 2500 THEN "extreme"
    ELSE "none"

\* C16: analyzeCAPE classifies the raw value in half-open bands: none below
\* 100, weak in [100,500), moderate in [500,1500), strong in [1500,2500),
\* extreme from 2500; 1200 is moderate, 1500 strong, 1499 moderate.
C16_CapeBands ==
    atmoOut # NoResult /\ atmoIn.cape # <<>> =>
        LET raw == atmoIn.cape[1]
            cape == atmoOut[1].cape
        IN  /\ cape.surface = raw
            /\ cape.level = StatedCapeLevel(raw)
            /\ raw = 1200 => cape.level = "moderate"
            /\ raw = 1500 => cape.level = "strong"
            /\ raw = 1499 => cape.level = "moderate"

\* a CAPE of exactly 1500 has been analysed as strong
C16_Witness ==
    /\ atmoOut # NoResult
    /\ atmoIn.cape = <<1500>>
    /\ atmoOut[1].cape.level = "strong"

\* mutant: a gust of exactly 40 is reported, as high
detectGustRisk_HighInclusive(avgWind, gustSpeed) ==
    IF gustSpeed = <<>> THEN NoResult
    ELSE LET gust == gustSpeed[1]
         IN  IF 10 * gust > GustFactorLimit * Max(avgWind, 1) \/ gust >= GustHigh
             THEN <<[name |-> "Starke Boeen",
                     level |-> IF gust > GustExtreme THEN "extreme"
                               ELSE IF gust >= GustHigh THEN "high"
                               ELSE "moderate"]>>
             ELSE NoResult

\* detectGustRisk(avgWind, gustSpeed), gustSpeed a possibly missing array
\* value (no comparison holds for undefined, and none for the 0 of null):
\* gustFactor = gustSpeed / Math.max(avgWind, 1) is compared as
\* 10 * gustSpeed > 16 * max(avgWind, 1)
detectGustRisk(avgWind, gustSpeed) ==
    IF gustSpeed = <<>> THEN NoResult
    ELSE LET gust == gustSpeed[1]
         IN  IF 10 * gust > GustFactorLimit * Max(avgWind, 1) \/ gust > GustHigh
             THEN <<[name |-> "Starke Boeen",
                     level |-> IF gust > GustExtreme THEN "extreme"
                               ELSE IF gust > GustHigh THEN "high"
                               ELSE "moderate"]>>
             ELSE NoResult

\* detectThermalTurbulence(thermal, cape)
detectThermalTurbulence(thermal, cape) ==
    IF cape > TurbulenceCape /\ thermal.consistency < TurbulenceConsistency
    THEN <<[name |-> "Thermische Turbulenz",
            level |-> IF cape > TurbulenceHighCape THEN "high" ELSE "moderate"]>>
    ELSE NoResult

\* detectWindShearRisk(windShear)
detectWindShearRisk(windShear) ==
    IF windShear.level = "high" \/ windShear.level = "severe"
    THEN <<[name |-> "Windscherung",
            level |-> IF windShear.level = "severe" THEN "high" ELSE "moderate"]>>
    ELSE NoResult

\* mutant: an extreme risk deducts as much as a high one
deductionOf_ExtremeAsHigh(risk) ==
    IF risk.level = "extreme" THEN DeductHigh
    ELSE IF risk.level = "high" THEN DeductHigh
    ELSE IF risk.level = "moderate" THEN DeductModerate
    ELSE IF risk.level = "low" THEN DeductLow
    ELSE 0

\* the deduction of one risk in evaluateSafetyLevel
deductionOf(risk) ==
    IF risk.level = "extreme" THEN DeductExtreme
    ELSE IF risk.level = "high" THEN DeductHigh
    ELSE IF risk.level = "moderate" THEN DeductModerate
    ELSE IF risk.level = "low" THEN DeductLow
    ELSE 0

\* the score after risks.forEach over the first n risks
RECURSIVE deducted(_, _)
deducted(risks, n) ==
    IF n = 0 THEN FullScore ELSE deducted(risks, n - 1) - deductionOf(risks[n])

\* mutant: the score is not capped at 100
evaluateSafetyLevel_NoClamp(risks, atmosphere) ==
    LET raw == deducted(risks, Len(risks))
                   + (IF atmosphere.thermal.index > BonusThermalIndex
                         /\ atmosphere.windShear.level = "low"
                      THEN ThermalBonus ELSE 0)
        score == Max(0, raw)
    IN  [score |-> score,
         level |-> IF score >= ScoreOptimal THEN "optimal"
                   ELSE IF score >= ScoreGood THEN "good"
                   ELSE IF score >= ScoreMarginal THEN "marginal"
                   ELSE IF score >= ScorePoor THEN "poor"
                   ELSE "dangerous"]

\* evaluateSafetyLevel(risks, atmosphere)
evaluateSafetyLevel(risks, atmosphere) ==
    LET raw == deducted(risks, Len(risks))
                   + (IF atmosphere.thermal.index > BonusThermalIndex
                         /\ atmosphere.windShear.level = "low"
                      THEN ThermalBonus ELSE 0)
        score == Max(0, Min(FullScore, raw))
    IN  [score |-> score,
         level |-> IF score >= ScoreOptimal THEN "optimal"
                   ELSE IF score >= ScoreGood THEN "good"
                   ELSE IF score >= ScoreMarginal THEN "marginal"
                   ELSE IF score >= ScorePoor THEN "poor"
                   ELSE "dangerous"]

\* mutant: the advanced and the intermediate band change places
recommendationOf_Swapped(safety, risks, windShear) ==
    IF safety.score < ExpertBelow \/ \E i \in 1..Len(risks) : risks[i].level = "extreme"
    THEN [pilotLevel |-> "expert", wingClass |-> "D"]
    ELSE IF safety.score < AdvancedBelow \/ windShear.level = "high"
    THEN [pilotLevel |-> "intermediate", wingClass |-> "B"]
    ELSE IF safety.score < IntermediateBelow
    THEN [pilotLevel |-> "advanced", wingClass |-> "C"]
    ELSE [pilotLevel |-> "novice", wingClass |-> "A"]

\* the pilot level and wing class of generateParaglidingAnalysis
recommendationOf(safety, risks, windShear) ==
    IF safety.score < ExpertBelow \/ \E i \in 1..Len(risks) : risks[i].level = "extreme"
    THEN [pilotLevel |-> "expert", wingClass |-> "D"]
    ELSE IF safety.score < AdvancedBelow \/ windShear.level = "high"
    THEN [pilotLevel |-> "advanced", wingClass |-> "C"]
    ELSE IF safety.score < IntermediateBelow
    THEN [pilotLevel |-> "intermediate", wingClass |-> "B"]
    ELSE [pilotLevel |-> "novice", wingClass |-> "A"]

\* the whole number a double is; the wind speeds of an hour are whole numbers
Whole(x) == DblRound(x)

\* mutant: an average speed of exactly 20 km/h allows wave soaring
analyzeSoaringConditions_AtTwenty(atmosphere, launchOrientation) ==
    LET windProfile == atmosphere.windProfile
        thermal == atmosphere.thermal
        wavePossible == windProfile.avgSpeed >= 200 /\ windProfile.directionChange < 30
    IN  [ridge |-> analyzeRidge([speed |-> Whole(windProfile.surface.speed),
                                 direction |-> windProfile.surface.direction],
                                launchOrientation),
         thermal |-> [suitable |-> thermal.strength > 8 /\ thermal.index >= 5],
         wave |-> [possible |-> wavePossible,
                   amplitude |-> IF wavePossible THEN 3 * windProfile.avgSpeed ELSE 0]]

\* analyzeSoaringConditions(atmosphere, launchOrientation): the ridge, the
\* thermal and the wave verdict; the amplitude Math.round(avgSpeed * 30) is
\* three times the average speed in tenths
analyzeSoaringConditions(atmosphere, launchOrientation) ==
    LET windProfile == atmosphere.windProfile
        thermal == atmosphere.thermal
        wavePossible == windProfile.avgSpeed > 200 /\ windProfile.directionChange < 30
    IN  [ridge |-> analyzeRidge([speed |-> Whole(windProfile.surface.speed),
                                 direction |-> windProfile.surface.direction],
                                launchOrientation),
         thermal |-> [suitable |-> thermal.strength > 8 /\ thermal.index >= 5],
         wave |-> [possible |-> wavePossible,
                   amplitude |-> IF wavePossible THEN 3 * windProfile.avgSpeed ELSE 0]]

\* analyzeXCPotential(atmosphere): the distance potential is
\* Math.round((glideRatio * lcl.height) / 1000 + thermal.strength * 10), the
\* confidence Math.round(confidence * 100) / 100 in hundredths, of
\* thermal.consistency * 0.6 + Math.min(lcl.height / 2000, 1) * 0.4; both
\* are <<>> when the LCL height is not a number
analyzeXCPotential(atmosphere) ==
    LET thermal == atmosphere.thermal
        windProfile == atmosphere.windProfile
        lcl == atmosphere.lcl
        score == (IF thermal.strength > 15 THEN 30
                  ELSE IF thermal.strength > 10 THEN 20
                  ELSE IF thermal.strength > 5 THEN 10 ELSE 0)
               + (IF Exceeds(lcl.height, 1800) THEN 25
                  ELSE IF Exceeds(lcl.height, 1400) THEN 15
                  ELSE IF Exceeds(lcl.height, 1000) THEN 5 ELSE 0)
               + (IF windProfile.avgSpeed < 250 THEN 20
                  ELSE IF windProfile.avgSpeed < 350 THEN 10 ELSE 0)
               + (IF thermal.consistency > 7 THEN 25
                  ELSE IF thermal.consistency > 5 THEN 15 ELSE 0)
        distancePotential ==
            DblAdd(DblDivInt(FromInt(GlideRatio * lcl.height[1]), 1000),
                   DblMul(Num(thermal.strength, 10), Ten))
        confidence ==
            DblAdd(DblMul(Num(thermal.consistency, 10), ConsistencyWeight),
                   DblMul(DblMin(DblDivInt(FromInt(lcl.height[1]), FullCloudbase), One),
                          CloudbaseWeight))
    IN  [score |-> score,
         distance |->
             [potential |-> IF lcl.height = <<>> THEN <<>>
                            ELSE <<DblRound(distancePotential)>>,
              confidence |-> IF lcl.height = <<>> THEN <<>>
                             ELSE <<DblRound(DblMul(confidence, Hundred))>>],
         rating |-> IF score > 80 THEN "excellent"
                    ELSE IF score > 60 THEN "good"
                    ELSE IF score > 40 THEN "fair"
                    ELSE IF score > 20 THEN "poor"
                    ELSE "unsuitable"]

\* the warning generateFlightWarnings pushes for a risk of level extreme or high
warningOf(risk) ==
    [type |-> IF risk.name = "Lee-Turbulenz" THEN "terrain"
              ELSE IF risk.name = "Starke Boeen" THEN "wind" ELSE "thermal",
     severity |-> IF risk.level = "extreme" THEN "danger" ELSE "warning",
     message |-> risk.name]

\* the warnings of risks.forEach over the first n risks
RECURSIVE riskWarnings(_, _)
riskWarnings(risks, n) ==
    IF n = 0 THEN <<>>
    ELSE riskWarnings(risks, n - 1)
             \o (IF risks[n].level = "extreme" \/ risks[n].level = "high"
                 THEN <<warningOf(risks[n])>> ELSE <<>>)

\* mutant: the thunderstorm warning is given for a CAPE above 3000 only
generateFlightWarnings_LateStorm(atmosphere, risks) ==
    riskWarnings(risks, Len(risks))
        \o (IF atmosphere.cape.surface > TurbulenceHighCape
            THEN <<[type |-> "weather", severity |-> "warning",
                    message |-> "Gewittergefahr durch sehr hohe CAPE-Werte!"]>>
            ELSE <<>>)
        \o (IF atmosphere.lcl.classification = "very_low"
            THEN <<[type |-> "weather", severity |-> "caution",
                    message |-> "Niedrige Wolkenbasis"]>>
            ELSE <<>>)
        \o (IF atmosphere.windShear.turbulencePotential > 7
            THEN <<[type |-> "wind", severity |-> "warning",
                    message |-> "Starke Windscherung - erhoehtes Turbulenzrisiko"]>>
            ELSE <<>>)

\* generateFlightWarnings(atmosphere, risks)
generateFlightWarnings(atmosphere, risks) ==
    riskWarnings(risks, Len(risks))
        \o (IF atmosphere.cape.level = "extreme"
            THEN <<[type |-> "weather", severity |-> "warning",
                    message |-> "Gewittergefahr durch sehr hohe CAPE-Werte!"]>>
            ELSE <<>>)
        \o (IF atmosphere.lcl.classification = "very_low"
            THEN <<[type |-> "weather", severity |-> "caution",
                    message |-> "Niedrige Wolkenbasis"]>>
            ELSE <<>>)
        \o (IF atmosphere.windShear.turbulencePotential > 7
            THEN <<[type |-> "wind", severity |-> "warning",
                    message |-> "Starke Windscherung - erhoehtes Turbulenzrisiko"]>>
            ELSE <<>>)

\* generateParaglidingAnalysis(data, index, location, launchOrientation);
\* h is the hour at the index
generateParaglidingAnalysis(h, launchOrientation) ==
    LET analysis(atmosphere) ==
            LET windProfile == atmosphere.windProfile
                surfaceSpeed == Whole(windProfile.surface.speed)
                leeRisk == detectLeeRisk(surfaceSpeed, windProfile.surface.direction,
                                         launchOrientation)
                gustRisk == detectGustRisk(surfaceSpeed, h.wind_gusts_10m)
                thermalTurbRisk == detectThermalTurbulence(atmosphere.thermal,
                                                           atmosphere.cape.surface)
                shearRisk == detectWindShearRisk(atmosphere.windShear)
                risks == leeRisk \o gustRisk \o thermalTurbRisk \o shearRisk
                safety == evaluateSafetyLevel(risks, atmosphere)
            IN  [atmosphere |-> atmosphere,
                 soaring |-> analyzeSoaringConditions(atmosphere, launchOrientation),
                 xc |-> analyzeXCPotential(atmosphere),
                 risks |-> risks,
                 warnings |-> generateFlightWarnings(atmosphere, risks),
                 suitability |-> safety.level,
                 score |-> safety.score,
                 recommendation |-> recommendationOf(safety, risks, atmosphere.windShear)]
    IN  analysis(buildAtmosphericProfile(h))

AnaWindSpeeds == {<<>>, <<0>>, <<10>>, <<20>>, <<25>>, <<35>>}
AnaDirections == {<<>>, <<90>>, <<270>>}
AnaGusts == {<<>>, <<16>>, <<17>>, <<40>>, <<45>>, <<55>>}
AnaWinds80 == {<<>>, <<50>>, <<75>>}
AnaCapes == {<<1200>>, <<2400>>, <<2500>>, <<2600>>}
AnaTemps == {<<1500>>, <<2700>>}
AnaOrientations == {90, 270}

\* hours that vary in the surface wind, the gusts, the CAPE and the temperature
AnaRiskHours ==
    [wind_speed_10m : AnaWindSpeeds, wind_direction_10m : AnaDirections,
     wind_gusts_10m : AnaGusts,
     wind_speed_80m : AnaWinds80, wind_direction_80m : {<<>>},
     wind_speed_120m : {<<>>}, wind_direction_120m : {<<>>},
     cape : AnaCapes, hour : {14}, temperature_2m : AnaTemps,
     dewpoint_2m : {<<500>>}, boundary_layer_height : {<<>>}]

\* hours that vary in the wind speeds of the three bands
AnaWindHours ==
    [wind_speed_10m : {<<>>, Null, <<0>>, <<4>>, <<10>>, <<12>>, <<25>>, <<40>>},
     wind_direction_10m : {<<270>>},
     wind_gusts_10m : {<<>>},
     wind_speed_80m : {<<>>, Null, <<0>>, <<30>>, <<75>>},
     wind_direction_80m : {<<>>},
     wind_speed_120m : {<<>>, <<0>>, <<20>>, <<27>>, <<45>>},
     wind_direction_120m : {<<>>},
     cape : {<<1200>>}, hour : {14}, temperature_2m : {<<1500>>},
     dewpoint_2m : {<<500>>}, boundary_layer_height : {<<1800>>}]

\* hours that vary in the wind directions of the three bands
AnaDirectionHours ==
    [wind_speed_10m : {<<10>>}, wind_direction_10m : {<<>>, <<0>>, <<270>>},
     wind_gusts_10m : {<<>>},
     wind_speed_80m : {<<30>>}, wind_direction_80m : {<<>>, <<0>>, <<280>>},
     wind_speed_120m : {<<20>>}, wind_direction_120m : {<<>>, <<0>>, <<290>>},
     cape : {<<1200>>}, hour : {14}, temperature_2m : {<<>>, <<1500>>},
     dewpoint_2m : {<<500>>}, boundary_layer_height : {<<1800>>}]

\* hours that vary in the temperature, the dewpoint and the CAPE
AnaThermalHours ==
    [wind_speed_10m : {<<15>>, <<30>>}, wind_direction_10m : {<<270>>},
     wind_gusts_10m : {<<>>},
     wind_speed_80m : {<<>>}, wind_direction_80m : {<<>>},
     wind_speed_120m : {<<>>}, wind_direction_120m : {<<>>},
     cape : {<<>>, <<400>>, <<1200>>, <<2000>>, <<3000>>}, hour : {9, 14},
     temperature_2m : {Null, <<960>>, <<1000>>, <<2000>>, <<2200>>, <<3000>>},
     dewpoint_2m : {<<>>, Null, <<-600>>, <<490>>, <<1000>>, <<1140>>, <<2000>>, <<3000>>},
     boundary_layer_height : {<<>>, <<1000>>}]

\* the hours generateParaglidingAnalysis is called on, and the orientation
AnaInputs ==
    [hourly : AnaRiskHours \cup AnaWindHours \cup AnaThermalHours, launchOrientation : {90}]
        \cup [hourly : AnaDirectionHours, launchOrientation : AnaOrientations]

InitAna ==
    /\ anaIn \in AnaInputs
    /\ anaOut = NoResult
    /\ slot = NoResult /\ verdict = NoResult
    /\ env = NoResult /\ request = NoResult /\ results = <<>> /\ lookups = <<>>
    /\ soarIn = NoResult /\ soarOut = NoResult
    /\ winIn = NoResult /\ winOut = NoResult
    /\ atmoIn = NoResult /\ atmoOut = NoResult
    /\ safeIn = NoResult /\ safeOut = NoResult
    /\ launchSites = <<>> /\ nearIn = NoResult /\ nearOut = NoResult
    /\ gpsRequestRef = NoResult /\ promises = <<>> /\ handed = <<>> /\ store = NoResult
    /\ selected = NoResult /\ fetches = NoResult /\ viewState = NoResult /\ arrivals = <<>>

\* generateParaglidingAnalysis(data, index, location, launchOrientation) is called
GenerateParaglidingAnalysis ==
    /\ anaOut = NoResult
    /\ anaOut' = <<generateParaglidingAnalysis(anaIn.hourly, anaIn.launchOrientation)>>
    /\ UNCHANGED <<anaIn, rideVars, slotVars, soarVars, winVars, atmoVars, safeVars,
                   siteVars, gpsVars, loadVars>>

NextAna == GenerateParaglidingAnalysis

SpecAna == InitAna /\ [][NextAna]_vars

MaxRisks == 4
RiskLevels == {"minimal", "low", "moderate", "high", "extreme"}
ThermalIndices == {0, 3, 5, 7, 9, 10}
ShearLevels == {"low", "moderate", "high", "severe"}

\* the risk lists of up to MaxRisks risks of any level
RiskLists ==
    UNION {[1..n -> [name : {"risk"}, level : RiskLevels]] : n \in 0..MaxRisks}

InitSafe ==
    /\ safeIn \in [risks : RiskLists,
                   atmosphere : [thermal : [index : ThermalIndices],
                                 windShear : [level : ShearLevels]]]
    /\ safeOut = NoResult
    /\ slot = NoResult /\ verdict = NoResult
    /\ env = NoResult /\ request = NoResult /\ results = <<>> /\ lookups = <<>>
    /\ soarIn = NoResult /\ soarOut = NoResult
    /\ winIn = NoResult /\ winOut = NoResult
    /\ atmoIn = NoResult /\ atmoOut = NoResult /\ anaIn = NoResult /\ anaOut = NoResult
    /\ launchSites = <<>> /\ nearIn = NoResult /\ nearOut = NoResult
    /\ gpsRequestRef = NoResult /\ promises = <<>> /\ handed = <<>> /\ store = NoResult
    /\ selected = NoResult /\ fetches = NoResult /\ viewState = NoResult /\ arrivals = <<>>

\* evaluateSafetyLevel(risks, atmosphere) is called
EvaluateSafetyLevel ==
    /\ safeOut = NoResult
    /\ safeOut' = <<evaluateSafetyLevel(safeIn.risks, safeIn.atmosphere)>>
    /\ UNCHANGED <<safeIn, rideVars, slotVars, soarVars, winVars, atmoVars, anaVars,
                   siteVars, gpsVars, loadVars>>

NextSafe == EvaluateSafetyLevel

SpecSafe == InitSafe /\ [][NextSafe]_vars

\* the order novice/A < intermediate/B < advanced/C < expert/D
PilotRank(pilotLevel) ==
    CASE pilotLevel = "novice" -> 1
      [] pilotLevel = "intermediate" -> 2
      [] pilotLevel = "advanced" -> 3
      [] pilotLevel = "expert" -> 4

WingRank(wingClass) ==
    CASE wingClass = "A" -> 1
      [] wingClass = "B" -> 2
      [] wingClass = "C" -> 3
      [] wingClass = "D" -> 4

HasExtremeRisk(a) == \E i \in 1..Len(a.risks) : a.risks[i].level = "extreme"

\* what a comparison of two analyses looks at
Summary(a) ==
    [score |-> a.score,
     pilot |-> PilotRank(a.recommendation.pilotLevel),
     wing |-> WingRank(a.recommendation.wingClass),
     extreme |-> HasExtremeRisk(a),
     shearHigh |-> a.atmosphere.windShear.level = "high"]

\* the analyses of all hours and orientations
AllSummaries ==
    {Summary(generateParaglidingAnalysis(i.hourly, i.launchOrientation)) : i \in AnaInputs}

\* C11 as stated: of any two analyses, the one with the lower safety score is
\* never recommended a less experienced pilot level or a lower wing class
\* than the one with the higher score.
C11_LowerScoreMoreExperienced ==
    anaOut # NoResult =>
        \A b \in AllSummaries :
            Summary(anaOut[1]).score < b.score
                => /\ Summary(anaOut[1]).pilot >= b.pilot
                   /\ Summary(anaOut[1]).wing >= b.wing

\* C11 amended: of any two analyses that agree on whether an extreme risk is
\* present and on whether the wind-shear level is high, the one with the lower
\* safety score is never recommended a less experienced pilot level or a
\* lower wing class than the other.
C11_LowerScoreSameFlags ==
    anaOut # NoResult =>
        \A b \in AllSummaries :
            /\ Summary(anaOut[1]).score < b.score
            /\ Summary(anaOut[1]).extreme = b.extreme
            /\ Summary(anaOut[1]).shearHigh = b.shearHigh
            => /\ Summary(anaOut[1]).pilot >= b.pilot
               /\ Summary(anaOut[1]).wing >= b.wing

\* an analysis with the lower score of two that agree on both flags is
\* recommended the strictly more experienced level and the higher class
C11_Witness ==
    /\ anaOut # NoResult
    /\ \E b \in AllSummaries :
           /\ Summary(anaOut[1]).score < b.score
           /\ Summary(anaOut[1]).extreme = b.extreme
           /\ Summary(anaOut[1]).shearHigh = b.shearHigh
           /\ Summary(anaOut[1]).pilot > b.pilot
           /\ Summary(anaOut[1]).wing > b.wing

\* the number of risks of a level
CountLevel(risks, level) ==
    Cardinality({i \in 1..Len(risks) : risks[i].level = level})

\* 100 minus 50 / 30 / 15 / 5 per extreme / high / moderate / low risk, plus 10
\* when the thermal index is > 7 and the shear level is low
StatedRawScore(risks, atmosphere) ==
    100 - 50 * CountLevel(risks, "extreme") - 30 * CountLevel(risks, "high")
        - 15 * CountLevel(risks, "moderate") - 5 * CountLevel(risks, "low")
        + (IF atmosphere.thermal.index > 7 /\ atmosphere.windShear.level = "low"
           THEN 10 ELSE 0)

StatedSuitability(score) ==
    IF score >= 80 THEN "optimal"
    ELSE IF score >= 60 THEN "good"
    ELSE IF score >= 40 THEN "marginal"
    ELSE IF score >= 20 THEN "poor"
    ELSE "dangerous"

\* C12: evaluateSafetyLevel returns a score within [0,100], namely 100 minus
\* the cumulative deductions (50 per extreme, 30 per high, 15 per moderate, 5
\* per low risk) plus 10 when thermal index > 7 and shear is low, clamped to
\* [0,100]; the suitability is optimal, good, marginal, poor or dangerous for
\* a final score >= 80, >= 60, >= 40, >= 20 or below 20.
C12_ScoreAndSuitability ==
    safeOut # NoResult =>
        LET raw == StatedRawScore(safeIn.risks, safeIn.atmosphere)
        IN  /\ safeOut[1].score \in 0..100
            /\ safeOut[1].score = (IF raw < 0 THEN 0 ELSE IF raw > 100 THEN 100 ELSE raw)
            /\ safeOut[1].level = StatedSuitability(safeOut[1].score)

\* deductions that include a low risk went below zero and were clamped,
\* bonus included
C12_Witness ==
    /\ safeOut # NoResult
    /\ CountLevel(safeIn.risks, "low") > 0
    /\ safeIn.atmosphere.thermal.index > 7 /\ safeIn.atmosphere.windShear.level = "low"
    /\ StatedRawScore(safeIn.risks, safeIn.atmosphere) < 0
    /\ safeOut[1].score = 0 /\ safeOut[1].level = "dangerous"

\* the gust risks among the risks of the analysis
GustRisks == {i \in 1..Len(anaOut[1].risks) : anaOut[1].risks[i].name = "Starke Boeen"}

\* C13: with gustFactor = gust / max(avgWind, 1), detectGustRisk reports a
\* risk exactly when gustFactor > 1.6 or gust > 40, of level extreme if
\* gust > 50, high if gust > 40, else moderate; for avgWind 0 or 20 and gust
\* 45 it reports a risk of level high.
C13_GustRisk ==
    anaOut # NoResult /\ anaIn.hourly.wind_gusts_10m # <<>> =>
        LET gust == anaIn.hourly.wind_gusts_10m[1]
            avgWind == Whole(anaOut[1].atmosphere.windProfile.surface.speed)
            divisor == IF avgWind > 1 THEN avgWind ELSE 1
        IN  /\ GustRisks # {} <=> (10 * gust > 16 * divisor \/ gust > 40)
            /\ Cardinality(GustRisks) <= 1
            /\ \A i \in GustRisks :
                   anaOut[1].risks[i].level
                       = (IF gust > 50 THEN "extreme" ELSE IF gust > 40 THEN "high"
                          ELSE "moderate")
            /\ (avgWind \in {0, 20} /\ gust = 45)
                   => \E i \in GustRisks : anaOut[1].risks[i].level = "high"

\* a gust of 45 over a surface wind of 0 has been reported as a high risk
C13_Witness ==
    /\ anaOut # NoResult
    /\ anaIn.hourly.wind_speed_10m = <<0>>
    /\ anaIn.hourly.wind_gusts_10m = <<45>>
    /\ \E i \in GustRisks : anaOut[1].risks[i].level = "high"

\* the required per-hour fields all have a value at the index
RequiredFieldsPresent ==
    /\ ~Missing(anaIn.hourly.wind_speed_10m)
    /\ ~Missing(anaIn.hourly.wind_direction_10m)
    /\ ~Missing(anaIn.hourly.temperature_2m)

\* C14: when a required per-hour field (surface wind speed, surface wind
\* direction, temperature) has no value at the index, the core fails with an
\* error and never continues with zero in its place: an analysis is returned
\* only for an hour whose required fields are all present, and a surface wind
\* of 0 in a returned profile is a value the forecast had.
C14_MissingFieldFails ==
    anaOut # NoResult =>
        /\ RequiredFieldsPresent
        /\ IsZero(anaOut[1].atmosphere.windProfile.surface.speed)
               => anaIn.hourly.wind_speed_10m = <<0>>

\* C21: for the boundary (80 m) and the mid (120 m) band buildWindProfile
\* uses the provided speed and direction whenever a value is provided, a
\* provided 0 included, and the fallback (1.2 resp. 1.4 times the surface
\* speed, the surface direction) only when the value is missing.
C21_BandsUseProvidedValues ==
    anaOut # NoResult =>
        LET h == anaIn.hourly
            profile == anaOut[1].atmosphere.windProfile
        IN  /\ profile.boundary.speed
                   = (IF ~Missing(h.wind_speed_80m) THEN FromInt(h.wind_speed_80m[1])
                      ELSE DblMul(Num(12, 10), profile.surface.speed))
            /\ profile.boundary.direction
                   = (IF ~Missing(h.wind_direction_80m) THEN h.wind_direction_80m[1]
                      ELSE profile.surface.direction)
            /\ profile.mid.speed
                   = (IF ~Missing(h.wind_speed_120m) THEN FromInt(h.wind_speed_120m[1])
                      ELSE DblMul(Num(14, 10), profile.surface.speed))
            /\ profile.mid.direction
                   = (IF ~Missing(h.wind_direction_120m) THEN h.wind_direction_120m[1]
                      ELSE profile.surface.direction)

\* the order low < moderate < high < severe of the shear levels
ShearRank(level) ==
    CASE level = "low" -> 1
      [] level = "moderate" -> 2
      [] level = "high" -> 3
      [] level = "severe" -> 4

\* the wind speeds of all hours
AllWindSpeeds ==
    {[wind_speed_10m |-> i.hourly.wind_speed_10m, wind_direction_10m |-> <<>>,
      wind_speed_80m |-> i.hourly.wind_speed_80m, wind_direction_80m |-> <<>>,
      wind_speed_120m |-> i.hourly.wind_speed_120m, wind_direction_120m |-> <<>>] :
         i \in AnaInputs}

\* the wind shear of all hours, which the wind speeds determine
AllShears == {calculateWindShear(buildWindProfile(h)) : h \in AllWindSpeeds}

\* C22: the controlling shear is the greater of the surface-to-boundary speed
\* delta and the mid-to-high speed delta, each converted to m/s and divided
\* by its band size of 1 km and of 2 km; it is low below 5, moderate below
\* 10, high below 15, else severe, and the turbulence potential
\* round(min(10, maxShear / 15 * 10)) is a whole number in 0..10 that never
\* decreases from a lower shear level to a higher one.
C22_ShearAndTurbulence ==
    anaOut # NoResult =>
        LET profile == anaOut[1].atmosphere.windProfile
            shear == anaOut[1].atmosphere.windShear
            lower == DblAbs(DblSub(profile.boundary.speed, profile.surface.speed))
            upper == DblAbs(DblSub(profile.high.speed, profile.mid.speed))
            controlling == DblMax(DblDiv(lower, Num(36, 10)),
                                  DblDivInt(DblDiv(upper, Num(36, 10)), 2))
            Below(limit) == DblLess(controlling, FromInt(limit))
        IN  /\ shear.level = (IF Below(5) THEN "low" ELSE IF Below(10) THEN "moderate"
                              ELSE IF Below(15) THEN "high" ELSE "severe")
            /\ shear.turbulencePotential \in 0..10
            /\ shear.turbulencePotential
                   = DblRound(DblMin(Ten,
                                     DblMul(DblDivInt(controlling, 15), Ten)))
            /\ \A other \in AllShears :
                   ShearRank(shear.level) < ShearRank(other.level)
                       => shear.turbulencePotential <= other.turbulencePotential

\* a severe shear of the lowest layer, a delta above 60 km/h, whose uncapped
\* potential is above 10 has been given the potential 10
C22_Witness ==
    /\ anaOut # NoResult
    /\ anaOut[1].atmosphere.windShear.level = "severe"
    /\ DblGreater(DblAbs(DblSub(anaOut[1].atmosphere.windProfile.boundary.speed,
                                anaOut[1].atmosphere.windProfile.surface.speed)),
                  FromInt(60))
    /\ anaOut[1].atmosphere.windShear.turbulencePotential = 10

\* C30: every wind profile buildWindProfile produces has directionChange =
\* 20 whatever the input, so that wave soaring is reported possible exactly
\* when the average wind speed of the profile is above 20 km/h.
C30_WaveOnAverageSpeedAlone ==
    anaOut # NoResult =>
        LET profile == anaOut[1].atmosphere.windProfile
            Tenths(speed) == DblRound(DblMul(speed, Ten))
            bands == Tenths(profile.surface.speed) + Tenths(profile.boundary.speed)
                         + Tenths(profile.mid.speed)
        IN  /\ profile.directionChange = 20
            \* the mean of the three bands rounded to a tenth, in tenths of km/h
            /\ 6 * profile.avgSpeed - 3 <= 2 * bands
            /\ 2 * bands < 6 * profile.avgSpeed + 3
            /\ anaOut[1].soaring.wave.possible <=> profile.avgSpeed > 200

\* wave soaring has been reported possible, and reported impossible at an
\* average speed of exactly 20 km/h, whatever the directions of the bands
C30_Witness ==
    /\ anaOut # NoResult
    /\ anaOut[1].atmosphere.windProfile.avgSpeed = 200
    /\ anaOut[1].atmosphere.windProfile.boundary.direction
           # anaOut[1].atmosphere.windProfile.surface.direction
    /\ ~anaOut[1].soaring.wave.possible
    /\ anaOut[1].atmosphere.windProfile.directionChange = 20

\* C26 as stated: if any detected risk factor has the level extreme, the
\* suitability of the analysis is never optimal or good.
C26_ExtremeRiskNeverGood ==
    anaOut # NoResult /\ HasExtremeRisk(anaOut[1])
        => anaOut[1].suitability \notin {"optimal", "good"}

\* C26 amended: if any detected risk factor has the level extreme, the score
\* is at most 60 and the suitability is never optimal; it is good only at a
\* score of exactly 60, when the extreme risk is the only risk and the bonus
\* for a thermal index > 7 with low shear applies; the recommendation is
\* expert / D in every case.
C26_ExtremeRiskAtMostGood ==
    anaOut # NoResult /\ HasExtremeRisk(anaOut[1]) =>
        /\ anaOut[1].score <= 60
        /\ anaOut[1].suitability # "optimal"
        /\ anaOut[1].suitability = "good"
               => /\ anaOut[1].score = 60
                  /\ Len(anaOut[1].risks) = 1
                  /\ anaOut[1].atmosphere.thermal.index > 7
                  /\ anaOut[1].atmosphere.windShear.level = "low"
        /\ anaOut[1].recommendation = [pilotLevel |-> "expert", wingClass |-> "D"]

\* an hour with every field present whose only risk, extreme gusts, has been
\* rated good
C26_Witness ==
    /\ anaOut # NoResult
    /\ RequiredFieldsPresent
    /\ HasExtremeRisk(anaOut[1])
    /\ anaOut[1].suitability = "good"
    /\ anaOut[1].score = 60

\* the thermal-turbulence risks among the risks of the analysis
TurbulenceRisks ==
    {i \in 1..Len(anaOut[1].risks) : anaOut[1].risks[i].name = "Thermische Turbulenz"}

\* the thunderstorm warnings among the warnings of the analysis
StormWarnings ==
    {i \in 1..Len(anaOut[1].warnings) :
         anaOut[1].warnings[i].message = "Gewittergefahr durch sehr hohe CAPE-Werte!"}

\* C29: generateParaglidingAnalysis reports a thermal-turbulence risk exactly
\* when CAPE > 2500, never for a CAPE in (2000, 2500], and whenever it
\* reports one it also gives the thunderstorm warning of an extreme CAPE.
C29_TurbulenceAboveExtremeCape ==
    anaOut # NoResult =>
        LET cape == IF anaIn.hourly.cape = <<>> THEN 0 ELSE anaIn.hourly.cape[1]
        IN  /\ TurbulenceRisks # {} <=> cape > 2500
            /\ TurbulenceRisks # {} => StormWarnings # {}

\* a CAPE of 2600 has been reported as a thermal-turbulence risk together
\* with the thunderstorm warning
C29_Witness ==
    /\ anaOut # NoResult
    /\ anaIn.hourly.cape = <<2600>>
    /\ TurbulenceRisks # {}
    /\ StormWarnings # {}

\* a CAPE of exactly 2500 has got the thunderstorm warning and no
\* thermal-turbulence risk
C29_WitnessAtLimit ==
    /\ anaOut # NoResult
    /\ anaIn.hourly.cape = <<2500>>
    /\ TurbulenceRisks = {}
    /\ StormWarnings # {}

\* C25: for every atmospheric profile, those with a cloud base of 0 or below
\* included, analyzeXCPotential returns a score within [0,100] and a distance
\* confidence within [0,1] (here in hundredths).  The profiles looked at are
\* those whose cloud base is a number.
C25_XcScoreAndConfidenceInRange ==
    anaOut # NoResult /\ anaOut[1].atmosphere.lcl.height # <<>> =>
        /\ anaOut[1].xc.score \in 0..100
        /\ anaOut[1].xc.distance.confidence # <<>>
        /\ anaOut[1].xc.distance.confidence[1] \in 0..100

\* the part of C25 that holds of every profile whose temperature and
\* dewpoint are present and whose cloud base is not below the ground
C25_InRangeAboveGround ==
    /\ anaOut # NoResult
    /\ anaOut[1].atmosphere.lcl.height # <<>>
    /\ anaOut[1].atmosphere.lcl.height[1] >= 0
    => /\ anaOut[1].xc.score \in 0..100
       /\ anaOut[1].xc.distance.confidence[1] \in 0..100

\* C23: the LFC exists exactly when CAPE > 200; when it exists its height is
\* min(LCL height + 300, boundaryLayerHeight), hence never above the
\* boundary-layer height, and it is reachable exactly when that height is
\* < 1500; when it does not exist, its height is 0 and it is not reachable.
\* The boundary-layer height is the one buildAtmosphericProfile passes on:
\* the forecast's, or 1500 in place of a missing or zero value.
C23_LfcExistsAndReachable ==
    atmoOut # NoResult =>
        LET cape == IF atmoIn.cape = <<>> THEN 0 ELSE atmoIn.cape[1]
            layer == IF atmoIn.boundary_layer_height \in {<<>>, <<0>>} THEN 1500
                     ELSE atmoIn.boundary_layer_height[1]
            above == atmoOut[1].lcl.height[1] + 300
            lfc == atmoOut[1].lfc
        IN  /\ lfc.exists <=> cape > 200
            /\ lfc.exists
                   => /\ lfc.height = <<IF above < layer THEN above ELSE layer>>
                      /\ lfc.height[1] <= layer
                      /\ lfc.reachable <=> lfc.height[1] < 1500
            /\ ~lfc.exists => (lfc.height = <<0>> /\ ~lfc.reachable)

\* an LFC 300 m above an LCL of 1250 m has been capped by a boundary layer
\* of 1500 m and is not reachable
C23_Witness ==
    /\ atmoOut # NoResult
    /\ atmoOut[1].lcl.height = <<1250>>
    /\ atmoIn.boundary_layer_height = <<1500>>
    /\ atmoOut[1].lfc = [height |-> <<1500>>, exists |-> TRUE, reachable |-> FALSE]

\* the consistency the CAPE bands give, in tenths
StatedConsistency(cape) ==
    IF cape > 500 /\ cape < 1500 THEN 8
    ELSE IF cape > 1500 /\ cape < 2500 THEN 6
    ELSE IF cape > 2500 THEN 3
    ELSE 5

\* the strength sqrt(2 * CAPE / 1000) * timeFactor * boost exceeds the
\* threshold given in tenths of m/s: its square exceeds the threshold's
StrengthExceeds(cape, hour, temp, tenths) ==
    LET boost == IF temp > 2500 THEN 17424 ELSE IF temp > 2000 THEN 12100 ELSE 10000
        timeFactor == IF hour \in 10..17 THEN SinSquared(hour) ELSE 0
    IN  Above(MulDiv(timeFactor, cape * boost, 500000000), 10000 * tenths * tenths)

\* C24: the thermal index is the step function of the strength with the
\* values 0, 3, 5, 7, 9 at the thresholds > 0.5, > 1.0, > 1.5, > 2.0, and it
\* is 10 exactly when strength > 2.5 and consistency > 0.5, the consistency
\* being 0.8 for a CAPE in (500,1500), 0.6 in (1500,2500), 0.3 above 2500
\* and 0.5 otherwise.
C24_ThermalIndexSteps ==
    atmoOut # NoResult =>
        LET cape == IF atmoIn.cape = <<>> THEN 0 ELSE atmoIn.cape[1]
            exceeds(tenths) ==
                StrengthExceeds(cape, atmoIn.hour, atmoIn.temperature_2m[1], tenths)
            thermal == atmoOut[1].thermal
        IN  /\ thermal.consistency = StatedConsistency(cape)
            /\ thermal.index = 10 <=> (exceeds(25) /\ thermal.consistency > 5)
            /\ thermal.index # 10
                   => thermal.index = (IF exceeds(20) THEN 9
                                       ELSE IF exceeds(15) THEN 7
                                       ELSE IF exceeds(10) THEN 5
                                       ELSE IF exceeds(5) THEN 3 ELSE 0)

\* a strength above 2.5 m/s at a consistency of 0.3 has been given the index
\* 9, not 10
C24_Witness ==
    /\ atmoOut # NoResult
    /\ atmoIn.cape = <<3000>>
    /\ atmoOut[1].thermal.strength > 25
    /\ atmoOut[1].thermal.consistency = 3
    /\ atmoOut[1].thermal.index = 9

(***************************************************************************)
(*                 LAUNCH_SITES and findNearbyLaunchSites                  *)
(*                                                                         *)
(* Latitudes and longitudes are in ten-thousandths of a degree, distances  *)
(* in metres, maxDistance in km.  A site's optional distance is <<>> when  *)
(* the object has none.                                                    *)
(***************************************************************************)
\* the table as the module defines it
LAUNCH_SITES ==
    << [name |-> "Ascheloh", lat |-> 518833, lon |-> 89167, elevation |-> 280,
        orientation |-> 270, distance |-> <<>>],
       [name |-> "Willingen (Ettelsberg)", lat |-> 512944, lon |-> 86167,
        elevation |-> 838, orientation |-> 310, distance |-> <<>>],
       [name |-> "Wasserkuppe", lat |-> 504978, lon |-> 99450, elevation |-> 950,
        orientation |-> 270, distance |-> <<>>],
       [name |-> "Tegelberg", lat |-> 475556, lon |-> 107556, elevation |-> 1720,
        orientation |-> 210, distance |-> <<>> ] >>

\* the Haversine distance of calculateDistance, rounded to metres, from the
\* query points of QueryPoints to the sites of the table
HaversineMetres ==
    <<518833, 89167, 518833, 89167>> :> 0 @@
    <<518833, 89167, 512944, 86167>> :> 68684 @@
    <<518833, 89167, 504978, 99450>> :> 169908 @@
    <<518833, 89167, 475556, 107556>> :> 499003 @@
    <<520302, 85325, 518833, 89167>> :> 30983 @@
    <<520302, 85325, 512944, 86167>> :> 82023 @@
    <<520302, 85325, 504978, 99450>> :> 196697 @@
    <<520302, 85325, 475556, 107556>> :> 522451 @@
    <<513127, 94797, 518833, 89167>> :> 74416 @@
    <<513127, 94797, 512944, 86167>> :> 60029 @@
    <<513127, 94797, 504978, 99450>> :> 96307 @@
    <<513127, 94797, 475556, 107556>> :> 427819 @@
    <<505558, 96808, 518833, 89167>> :> 156909 @@
    <<505558, 96808, 512944, 86167>> :> 110938 @@
    <<505558, 96808, 504978, 99450>> :> 19758 @@
    <<505558, 96808, 475556, 107556>> :> 342667 @@
    <<481351, 115820, 518833, 89167>> :> 458161 @@
    <<481351, 115820, 512944, 86167>> :> 410851 @@
    <<481351, 115820, 504978, 99450>> :> 288256 @@
    <<481351, 115820, 475556, 107556>> :> 89193 @@
    <<535511, 99937, 518833, 89167>> :> 199128 @@
    <<535511, 99937, 512944, 86167>> :> 267730 @@
    <<535511, 99937, 504978, 99450>> :> 339528 @@
    <<535511, 99937, 475556, 107556>> :> 668828 @@
    <<475700, 107000, 518833, 89167>> :> 496410 @@
    <<475700, 107000, 512944, 86167>> :> 440638 @@
    <<475700, 107000, 504978, 99450>> :> 330171 @@
    <<475700, 107000, 475556, 107556>> :> 4469 @@
    <<517189, 87575, 518833, 89167>> :> 21308 @@
    <<517189, 87575, 512944, 86167>> :> 48198 @@
    <<517189, 87575, 504978, 99450>> :> 159084 @@
    <<517189, 87575, 475556, 107556>> :> 484734

\* calculateDistance(lat1, lon1, lat2, lon2)
calculateDistance(lat1, lon1, lat2, lon2) == HaversineMetres[<<lat1, lon1, lat2, lon2>>]

\* Array.prototype.sort with (a, b) => a.distance - b.distance: ascending,
\* equal distances keeping their order (insertion of sites[n] into the
\* sorted first n - 1)
RECURSIVE sortByDistance(_, _)
sortByDistance(sites, n) ==
    IF n = 0 THEN <<>>
    ELSE LET sorted == sortByDistance(sites, n - 1)
             before == {k \in 1..Len(sorted) :
                            sorted[k].distance[1] <= sites[n].distance[1]}
         IN  [k \in 1..n |-> IF k <= Cardinality(before) THEN sorted[k]
                             ELSE IF k = Cardinality(before) + 1 THEN sites[n]
                             ELSE sorted[k - 1]]

\* mutant: the distance is written to the table's own entries
findNearbyLaunchSites_InPlace(table, currentLat, currentLon, maxDistance) ==
    LET mapped == [k \in 1..Len(table) |->
                      [table[k] EXCEPT !.distance =
                          <<calculateDistance(currentLat, currentLon,
                                              table[k].lat, table[k].lon)>>]]
        filtered == SelectSeq(mapped,
                        LAMBDA site : site.distance[1] <= 1000 * maxDistance)
    IN  [sites |-> sortByDistance(filtered, Len(filtered)), table |-> mapped]

\* findNearbyLaunchSites(currentLat, currentLon, maxDistance) on the table:
\* the sites returned and the table after the call
findNearbyLaunchSites(table, currentLat, currentLon, maxDistance) ==
    LET mapped == [k \in 1..Len(table) |->
                      [table[k] EXCEPT !.distance =
                          <<calculateDistance(currentLat, currentLon,
                                              table[k].lat, table[k].lon)>>]]
        filtered == SelectSeq(mapped,
                        LAMBDA site : site.distance[1] <= 1000 * maxDistance)
    IN  [sites |-> sortByDistance(filtered, Len(filtered)), table |-> table]

\* Ascheloh, Bielefeld, Kassel, Fulda, Muenchen, Hamburg, Fuessen, Paderborn
QueryPoints ==
    { <<518833, 89167>>, <<520302, 85325>>, <<513127, 94797>>, <<505558, 96808>>,
      <<481351, 115820>>, <<535511, 99937>>, <<475700, 107000>>, <<517189, 87575>> }
MaxDistances == {0, 20, 50, 75, 100, 200, 500, 1000}

InitSites ==
    /\ launchSites = LAUNCH_SITES
    /\ nearIn \in [point : QueryPoints, maxDistance : MaxDistances]
    /\ nearOut = NoResult
    /\ slot = NoResult /\ verdict = NoResult
    /\ env = NoResult /\ request = NoResult /\ results = <<>> /\ lookups = <<>>
    /\ soarIn = NoResult /\ soarOut = NoResult
    /\ winIn = NoResult /\ winOut = NoResult
    /\ atmoIn = NoResult /\ atmoOut = NoResult /\ anaIn = NoResult /\ anaOut = NoResult
    /\ safeIn = NoResult /\ safeOut = NoResult
    /\ gpsRequestRef = NoResult /\ promises = <<>> /\ handed = <<>> /\ store = NoResult
    /\ selected = NoResult /\ fetches = NoResult /\ viewState = NoResult /\ arrivals = <<>>

\* findNearbyLaunchSites(lat, lon, maxDistance) is called
FindNearbyLaunchSites ==
    /\ nearOut = NoResult
    /\ LET r == findNearbyLaunchSites(launchSites, nearIn.point[1], nearIn.point[2],
                                      nearIn.maxDistance)
       IN  nearOut' = <<r.sites>> /\ launchSites' = r.table
    /\ UNCHANGED <<nearIn, rideVars, slotVars, soarVars, winVars, atmoVars, anaVars,
                   safeVars, gpsVars, loadVars>>

NextSites == FindNearbyLaunchSites

SpecSites == InitSites /\ [][NextSites]_vars

\* the distance in metres from the query point to a site
DistanceTo(site) ==
    HaversineMetres[<<nearIn.point[1], nearIn.point[2], site.lat, site.lon>>]

\* C17: findNearbyLaunchSites returns exactly the sites of the table whose
\* distance to the query point is <= maxDistance, each once, in ascending
\* order of distance, and leaves the table as it was, no entry carrying a
\* distance.
C17_NearbySitesNoSideEffect ==
    /\ launchSites = LAUNCH_SITES
    /\ \A k \in 1..Len(launchSites) : launchSites[k].distance = <<>>
    /\ nearOut # NoResult =>
           LET sites == nearOut[1]
           IN  /\ {sites[i].name : i \in 1..Len(sites)}
                      = {LAUNCH_SITES[k].name : k \in
                            {k \in 1..Len(LAUNCH_SITES) :
                                DistanceTo(LAUNCH_SITES[k]) <= 1000 * nearIn.maxDistance}}
               /\ \A i, j \in 1..Len(sites) : i # j => sites[i].name # sites[j].name
               /\ \A i, j \in 1..Len(sites) :
                      i < j => DistanceTo(sites[i]) <= DistanceTo(sites[j])
               /\ \A i \in 1..Len(sites) : sites[i].distance = <<DistanceTo(sites[i])>>

\* from Kassel within 75 km: Willingen before Ascheloh, the reverse of their
\* order in the table, and the two farther sites left out
C17_Witness ==
    /\ nearOut # NoResult
    /\ nearIn = [point |-> <<513127, 94797>>, maxDistance |-> 75]
    /\ Len(nearOut[1]) = 2
    /\ nearOut[1][1].name = "Willingen (Ettelsberg)"
    /\ nearOut[1][2].name = "Ascheloh"

(***************************************************************************)
(*              updateFromGPS of the location store                        *)
(*                                                                         *)
(* promises[p] is the p-th promise updateFromGPS created: stage "locating" *)
(* while getCurrentPosition has not called back, "geocoding" while the     *)
(* success callback awaits the reverse geocoding, "settled" once resolve   *)
(* was called, with the value it resolved to.  handed[k] is what the k-th  *)
(* call returned: the promise (0 for the null returned when geolocation is *)
(* unavailable) and whether the call started a geolocation request.        *)
(***************************************************************************)
MaxCalls == 4
GeoErrors == {"PERMISSION_DENIED", "POSITION_UNAVAILABLE", "TIMEOUT", "UNKNOWN"}

\* the labels updateManual is called with
ManualLabels == {"Leopoldshoehe", "Fulda"}

\* mutant: the pending promise is not looked at
updateFromGPS_NoGuard(ref, proms, st) ==
    IF ~st.geolocation
    THEN [ref |-> ref, promises |-> proms,
          store |-> [st EXCEPT !.error = "Browser-GPS nicht verfuegbar"],
          returned |-> [promise |-> 0, started |-> FALSE]]
    ELSE [ref |-> <<Len(proms) + 1>>,
          promises |-> Append(proms, [stage |-> "locating", value |-> "pending"]),
          store |-> [st EXCEPT !.isLoading = TRUE, !.error = "none"],
          returned |-> [promise |-> Len(proms) + 1, started |-> TRUE]]

\* the body of updateFromGPS up to its return: the new ref, promises and
\* store, and what the call returns
updateFromGPS(ref, proms, st) ==
    IF ref # NoResult
    THEN [ref |-> ref, promises |-> proms, store |-> st,
          returned |-> [promise |-> ref[1], started |-> FALSE]]
    ELSE IF ~st.geolocation
    THEN [ref |-> ref, promises |-> proms,
          store |-> [st EXCEPT !.error = "Browser-GPS nicht verfuegbar"],
          returned |-> [promise |-> 0, started |-> FALSE]]
    ELSE [ref |-> <<Len(proms) + 1>>,
          promises |-> Append(proms, [stage |-> "locating", value |-> "pending"]),
          store |-> [st EXCEPT !.isLoading = TRUE, !.error = "none"],
          returned |-> [promise |-> Len(proms) + 1, started |-> TRUE]]

\* the state of a mounted LocationProvider: no request was made, nothing is
\* loading and there is no error; the location is DEFAULT_LOCATION, which the
\* mount effect has replaced by the location saved in localStorage if there
\* is one (what the save effect wrote in an earlier visit: a manual location
\* or one found by GPS, named or not)
InitGps ==
    /\ gpsRequestRef = NoResult
    /\ promises = <<>>
    /\ handed = <<>>
    /\ \E geolocation \in BOOLEAN,
          saved \in {NoResult}
                      \cup {<<[source |-> "manual", cityLabel |-> label]>> :
                                label \in ManualLabels}
                      \cup {<<[source |-> "gps", cityLabel |-> label]>> :
                                label \in {"geocoded name", "Aktueller Standort"}} :
          LET location == IF saved = NoResult
                          THEN [source |-> "manual", cityLabel |-> "Leopoldshoehe"]
                          ELSE saved[1]
          IN  store = [geolocation |-> geolocation, isLoading |-> FALSE,
                       error |-> "none", source |-> location.source,
                       cityLabel |-> location.cityLabel]
    /\ slot = NoResult /\ verdict = NoResult
    /\ env = NoResult /\ request = NoResult /\ results = <<>> /\ lookups = <<>>
    /\ soarIn = NoResult /\ soarOut = NoResult
    /\ winIn = NoResult /\ winOut = NoResult
    /\ atmoIn = NoResult /\ atmoOut = NoResult /\ anaIn = NoResult /\ anaOut = NoResult
    /\ safeIn = NoResult /\ safeOut = NoResult
    /\ launchSites = <<>> /\ nearIn = NoResult /\ nearOut = NoResult
    /\ selected = NoResult /\ fetches = NoResult /\ viewState = NoResult /\ arrivals = <<>>

\* a component calls updateFromGPS()
UpdateFromGPS ==
    /\ Len(handed) < MaxCalls
    /\ LET r == updateFromGPS(gpsRequestRef, promises, store)
       IN  /\ gpsRequestRef' = r.ref
           /\ promises' = r.promises
           /\ store' = r.store
           /\ handed' = Append(handed, r.returned)
    /\ UNCHANGED <<rideVars, slotVars, soarVars, winVars, atmoVars, anaVars, safeVars,
                   siteVars, loadVars>>

\* getCurrentPosition calls the success callback, which starts the reverse
\* geocoding and awaits it
PositionFound(p) ==
    /\ promises[p].stage = "locating"
    /\ promises' = [promises EXCEPT ![p].stage = "geocoding"]
    /\ UNCHANGED <<gpsRequestRef, handed, store, rideVars, slotVars, soarVars, winVars,
                   atmoVars, anaVars, safeVars, siteVars, loadVars>>

\* the reverse geocoding ends (with a name or not): the success callback sets
\* the location, clears the ref and resolves the promise
GeocodeDone(p, named) ==
    /\ promises[p].stage = "geocoding"
    /\ store' = [store EXCEPT !.source = "gps", !.isLoading = FALSE,
                              !.cityLabel = IF named THEN "geocoded name"
                                            ELSE "Aktueller Standort"]
    /\ gpsRequestRef' = NoResult
    /\ promises' = [promises EXCEPT ![p] = [stage |-> "settled", value |-> "location"]]
    /\ UNCHANGED <<handed, rideVars, slotVars, soarVars, winVars, atmoVars, anaVars,
                   safeVars, siteVars, loadVars>>

\* getCurrentPosition calls the error callback: the error is shown, the ref
\* cleared and the promise resolved with null
PositionError(p, code) ==
    /\ promises[p].stage = "locating"
    /\ store' = [store EXCEPT !.isLoading = FALSE, !.error = code]
    /\ gpsRequestRef' = NoResult
    /\ promises' = [promises EXCEPT ![p] = [stage |-> "settled", value |-> "null"]]
    /\ UNCHANGED <<handed, rideVars, slotVars, soarVars, winVars, atmoVars, anaVars,
                   safeVars, siteVars, loadVars>>

\* a component calls updateManual(lat, lon, label): the location becomes the
\* manual one and the error is cleared; a pending request is left alone
UpdateManual(label) ==
    /\ store' = [store EXCEPT !.source = "manual", !.cityLabel = label,
                              !.error = "none"]
    /\ UNCHANGED <<gpsRequestRef, promises, handed, rideVars, slotVars, soarVars,
                   winVars, atmoVars, anaVars, safeVars, siteVars, loadVars>>

\* a component calls clearError()
ClearError ==
    /\ store' = [store EXCEPT !.error = "none"]
    /\ UNCHANGED <<gpsRequestRef, promises, handed, rideVars, slotVars, soarVars,
                   winVars, atmoVars, anaVars, safeVars, siteVars, loadVars>>

NextGps ==
    \/ UpdateFromGPS
    \/ \E label \in ManualLabels : UpdateManual(label)
    \/ ClearError
    \/ \E p \in 1..Len(promises) : PositionFound(p)
    \/ \E p \in 1..Len(promises), named \in BOOLEAN : GeocodeDone(p, named)
    \/ \E p \in 1..Len(promises), code \in GeoErrors : PositionError(p, code)

SpecGps == InitGps /\ [][NextGps]_vars

\* the promises whose geolocation request has not settled
InFlight == {p \in 1..Len(promises) : promises[p].stage # "settled"}

\* this step is a call of updateFromGPS
IsCall == Len(handed') = Len(handed) + 1

\* C18: at most one geolocation request is in flight at any time; a call of
\* updateFromGPS made while one is pending gets that pending promise and
\* starts no request; a call made after the request has settled (with a
\* location or with an error) starts a fresh request.
C18_GpsThrottled ==
    [][/\ Cardinality({p \in 1..Len(promises') : promises'[p].stage # "settled"}) <= 1
       /\ (IsCall /\ InFlight # {})
            => /\ handed'[Len(handed')].promise \in InFlight
               /\ ~handed'[Len(handed')].started
               /\ promises' = promises
       /\ (IsCall /\ InFlight = {} /\ store.geolocation)
            => /\ handed'[Len(handed')].started
               /\ Len(promises') = Len(promises) + 1
               /\ handed'[Len(handed')].promise = Len(promises')
               /\ promises'[Len(promises')].stage = "locating"]_vars

\* the second call joined the first call's pending request; after that one
\* settled with an error, the third call started a second request
C18_Witness ==
    /\ Len(handed) >= 3
    /\ handed[1] = [promise |-> 1, started |-> TRUE]
    /\ handed[2] = [promise |-> 1, started |-> FALSE]
    /\ handed[3] = [promise |-> 2, started |-> TRUE]
    /\ promises[1] = [stage |-> "settled", value |-> "null"]
    /\ promises[2].stage = "locating"

(***************************************************************************)
(*   loadParaglidingData and loadWeather: the data loads of the views      *)
(*                                                                         *)
(* A place stands for a pair (lat, lon) of the location store.  Each view  *)
(* has a useEffect that calls its load function: the now view's effect     *)
(* depends on location.lat and location.lon (its loadWeather is created    *)
(* once), the paragliding view's effect also on loadParaglidingData, which *)
(* is created anew whenever location.cityLabel changes.  The now view's    *)
(* handleCheckNow calls loadWeather itself once updateFromGPS has settled. *)
(* A load sets loading, clears the error, awaits the fetch and then sets   *)
(* the view's state from the response it awaited.  A load carries the      *)
(* place it was called with and its number among the view's loads.         *)
(* Neither view cancels a load or compares a response with the current     *)
(* location.                                                               *)
(***************************************************************************)
DefaultPlace == 1
MaxPlaces == 2
MaxChanges == 2
MaxLoads == 2

Places == 1..MaxPlaces
Views == {"paragliding", "now"}

\* DEFAULT_LOCATION.cityLabel, and the label of a position that could not be
\* reverse geocoded
DefaultLabel == "Leopoldshoehe"
CityLabels == {DefaultLabel, "Aktueller Standort"}

\* how a fetch ends: with data, with a response without data (no hourly
\* times resp. no current weather), or rejected
Outcomes == {"data", "empty", "rejected"}

InitLoad ==
    /\ selected = [place |-> DefaultPlace, label |-> DefaultLabel, lastUpdated |-> 0]
    /\ fetches = {}
    /\ viewState = [v \in Views |->
                        [loading |-> FALSE, error |-> FALSE, shown |-> NoResult,
                         effectFor |-> NoResult, loads |-> 0, checking |-> NoResult]]
    /\ arrivals = [v \in Views |-> [last |-> 0, inOrder |-> TRUE, latestData |-> 0]]
    /\ slot = NoResult /\ verdict = NoResult
    /\ env = NoResult /\ request = NoResult /\ results = <<>> /\ lookups = <<>>
    /\ soarIn = NoResult /\ soarOut = NoResult
    /\ winIn = NoResult /\ winOut = NoResult
    /\ atmoIn = NoResult /\ atmoOut = NoResult /\ anaIn = NoResult /\ anaOut = NoResult
    /\ safeIn = NoResult /\ safeOut = NoResult
    /\ launchSites = <<>> /\ nearIn = NoResult /\ nearOut = NoResult
    /\ gpsRequestRef = NoResult /\ promises = <<>> /\ handed = <<>> /\ store = NoResult

\* setLocation of updateManual(lat, lon, label) and of updateFromGPS: the
\* store's location is replaced, be it by the same place or the same label;
\* lastUpdated counts the updates
setLocation(place, label) ==
    [place |-> place, label |-> label, lastUpdated |-> selected.lastUpdated + 1]

\* updateManual(lat, lon, label), a position updateFromGPS found for a
\* caller other than handleCheckNow, or the provider's mount effect, which
\* runs after those of the views and sets the location saved in localStorage
SetLocation(place, label) ==
    /\ selected.lastUpdated < MaxChanges
    /\ selected' = setLocation(place, label)
    /\ UNCHANGED <<fetches, viewState, arrivals, rideVars, slotVars, soarVars, winVars,
                   atmoVars, anaVars, safeVars, siteVars, gpsVars>>

\* what the dependencies of the view's effect are made of: location.lat and
\* location.lon, and for the paragliding view the cityLabel its load
\* function was created for
effectDeps(view) ==
    IF view = "paragliding" THEN <<selected.place, selected.label>>
    ELSE <<selected.place>>

\* the load function is called: it sets loading, clears the error and
\* starts its fetch
startLoad(state, view) ==
    [state EXCEPT ![view] = [@ EXCEPT !.loading = TRUE, !.error = FALSE, !.loads = @ + 1]]

\* the load of the view that startLoad starts
startedLoad(view, place) ==
    [view |-> view, place |-> place, n |-> viewState[view].loads + 1]

\* the view's useEffect runs after a render in which one of its
\* dependencies differs from that of its last run, and on mount: the load
\* function is called with the location of that render
LoadStarts(view) ==
    /\ viewState[view].effectFor # effectDeps(view)
    /\ viewState' = [startLoad(viewState, view)
                         EXCEPT ![view].effectFor = effectDeps(view)]
    /\ fetches' = fetches \cup {startedLoad(view, selected.place)}
    /\ UNCHANGED <<selected, arrivals, rideVars, slotVars, soarVars, winVars, atmoVars,
                   anaVars, safeVars, siteVars, gpsVars>>

\* handleCheckNow of the now view up to its await of updateFromGPS; the
\* handler keeps the location of the render it was created in
CheckNowStarts ==
    /\ viewState["now"].checking = NoResult
    /\ viewState["now"].loads < MaxLoads
    /\ viewState' = [viewState EXCEPT !["now"].checking = <<selected.place>>]
    /\ UNCHANGED <<selected, fetches, arrivals, rideVars, slotVars, soarVars, winVars,
                   atmoVars, anaVars, safeVars, siteVars, gpsVars>>

\* updateFromGPS found a position: it sets the store's location and
\* resolves, and handleCheckNow calls loadWeather with that position
CheckNowLocated(place, label) ==
    /\ viewState["now"].checking # NoResult
    /\ selected.lastUpdated < MaxChanges
    /\ selected' = setLocation(place, label)
    /\ viewState' = [startLoad(viewState, "now") EXCEPT !["now"].checking = NoResult]
    /\ fetches' = fetches \cup {startedLoad("now", place)}
    /\ UNCHANGED <<arrivals, rideVars, slotVars, soarVars, winVars, atmoVars, anaVars,
                   safeVars, siteVars, gpsVars>>

\* updateFromGPS resolved with null: handleCheckNow calls loadWeather with
\* the location it kept
CheckNowNotLocated ==
    /\ viewState["now"].checking # NoResult
    /\ viewState' = [startLoad(viewState, "now")
                         EXCEPT !["now"].checking = NoResult]
    /\ fetches' = fetches \cup {startedLoad("now", viewState["now"].checking[1])}
    /\ UNCHANGED <<selected, arrivals, rideVars, slotVars, soarVars, winVars, atmoVars,
                   anaVars, safeVars, siteVars, gpsVars>>

\* the view's state after the awaited fetch of a load has ended: data of the
\* load's place is set; a response without data throws in the paragliding
\* view and is passed over in the now view; the error is set in the catch
\* block and loading is cleared in the finally block
afterFetch(state, load, outcome) ==
    IF outcome = "data"
    THEN [state EXCEPT !.shown = <<load.place>>, !.loading = FALSE]
    ELSE IF outcome = "rejected" \/ load.view = "paragliding"
    THEN [state EXCEPT !.error = TRUE, !.loading = FALSE]
    ELSE [state EXCEPT !.loading = FALSE]

\* the fetch of a load ends and the rest of the load function runs
FetchSettles(load, outcome) ==
    /\ load \in fetches
    /\ fetches' = fetches \ {load}
    /\ viewState' = [viewState EXCEPT ![load.view] = afterFetch(@, load, outcome)]
    /\ arrivals' = [arrivals EXCEPT ![load.view] =
                        [last |-> load.n,
                         inOrder |-> @.inOrder /\ @.last < load.n,
                         latestData |-> IF outcome = "data"
                                        THEN Max(@.latestData, load.n)
                                        ELSE @.latestData]]
    /\ UNCHANGED <<selected, rideVars, slotVars, soarVars, winVars, atmoVars, anaVars,
                   safeVars, siteVars, gpsVars>>

NextLoad ==
    \/ \E place \in Places, label \in CityLabels : SetLocation(place, label)
    \/ \E view \in Views : LoadStarts(view)
    \/ CheckNowStarts
    \/ \E place \in Places, label \in CityLabels : CheckNowLocated(place, label)
    \/ CheckNowNotLocated
    \/ \E load \in fetches, outcome \in Outcomes : FetchSettles(load, outcome)

SpecLoad == InitLoad /\ [][NextLoad]_vars

\* all loads of the view have settled, its effect has run for the location
\* that is selected and no handleCheckNow is waiting
Settled(view) ==
    /\ viewState[view].effectFor = effectDeps(view)
    /\ viewState[view].checking = NoResult
    /\ \A load \in fetches : load.view # view

\* the view's last load ended with data
LastLoadDelivered(view) == viewState[view].loads = arrivals[view].latestData

\* the view's loads settled in the order they were started
SettledInOrder(view) == arrivals[view].inOrder

\* C27: if the location changes while an earlier load is still in flight,
\* then once all loads have settled the paragliding analyses and the current
\* weather of the now view that are displayed are those of the location
\* selected last, whatever the order in which the responses arrive.  The
\* last load of the view is taken to have delivered data.
C27_LatestLocationShown ==
    \A view \in Views :
        Settled(view) /\ LastLoadDelivered(view)
            => viewState[view].shown = <<selected.place>>

\* the part of C27 that holds: the paragliding view, all of whose loads are
\* started by its effect, shows the data of the location selected last when
\* its loads settled in the order they were started
C27_ShownWhenInOrder ==
    Settled("paragliding") /\ LastLoadDelivered("paragliding")
            /\ SettledInOrder("paragliding")
        => viewState["paragliding"].shown = <<selected.place>>

=============================================================================
